---- MODULE Spec2Model ----
(***************************************************************************)
(* A model of the request dispatch and resource-mutation engine of the    *)
(* dav crate: the FileNode COPY/MOVE engine (file/copy_move.rs) and the    *)
(* calendar PROPPATCH engine (calendar/proppatch.rs).                      *)
(*                                                                         *)
(* The object store, the hierarchy cache, the ACL evaluator, the lock      *)
(* manager and the quota service live in other crates; they are modelled   *)
(* by the interface the dav crate consumes.  Timestamps (created/modified) *)
(* are not part of the modelled record.                                    *)
(***************************************************************************)
EXTENDS Integers, Sequences, FiniteSets, TLC

VARIABLES
    files,              \* files[account][document_id]: the stored FileNode records
    next_document_id,   \* next_document_id[account]: the store's id allocator
    cm,                 \* the COPY/MOVE request in flight (its locals and position)
    requests,           \* number of requests issued so far
    calendars,          \* calendars[document_id]: the stored Calendar / CalendarEvent records
    pp,                 \* the PROPPATCH request in flight (its locals and position)
    cards,              \* cards[account][document_id]: the stored AddressBook / ContactCard records
    get,                \* the card GET request in flight and its response
    reported,           \* history: the ETag last reported for each resource
    uri,                \* a validate_uri call: its input and its result
    urn,                \* a Urn formatted and parsed back
    query,              \* a calendar-query evaluation: its input and its result
    del                 \* the calendar DELETE request in flight

vars == <<files, next_document_id, cm, requests, calendars, pp,
          cards, get, reported, uri, urn, query, del>>

\* the state of the handlers a specification does not exercise
other_handlers == <<cards, get, reported, uri, urn, query, del>>

OthersIdle ==
    /\ cards = <<>>
    /\ get = <<>>
    /\ reported = <<>>
    /\ uri = <<>>
    /\ urn = <<>>
    /\ query = <<>>
    /\ del = <<>>

-----------------------------------------------------------------------------
(* Bounds of the model *)

MaxRequests == 1        \* requests issued in one behaviour

-----------------------------------------------------------------------------
(* Option<u32>::None, Option<String>::None *)

None == 0 - 1
NoName == ""

Accounts == {0, 1}
Names == {"a", "b", "c"}
Depths == {"Zero", "One", "Infinity"}

\* The access token of the requester: a member of account 0 only; account 1
\* is reached through the ACL grants stored on its nodes.
is_member(account_id) == account_id = 0

Min(S) == CHOOSE x \in S : \A y \in S : x <= y

-----------------------------------------------------------------------------
(* FileNode records: parent_id is 0 for the root and parent document id + 1 *)
(* otherwise; file is 0 for a folder (no payload) and the payload (which    *)
(* is also its size) for a file; acls are the rights granted to the token.  *)

FileNode(parent_id, name, file, acls) ==
    [parent_id |-> parent_id, name |-> name, file |-> file, acls |-> acls]

is_container(node) == node.file = 0
size(node) == node.file

-----------------------------------------------------------------------------
(* The hierarchy cache (DavResources) over one account's records h.         *)

RECURSIVE PathFrom(_, _, _)
PathFrom(h, d, fuel) ==
    IF d \notin DOMAIN h \/ fuel = 0 THEN <<>>
    ELSE IF h[d].parent_id = 0 THEN <<h[d].name>>
    ELSE LET p == PathFrom(h, h[d].parent_id - 1, fuel - 1)
         IN  IF p = <<>> THEN <<>> ELSE Append(p, h[d].name)

\* DavResource.name: the path relative to the account root (<<>>: not in the cache)
Path(h, d) == PathFrom(h, d, Cardinality(DOMAIN h))

IsPrefix(p, q) == Len(p) <= Len(q) /\ SubSeq(q, 1, Len(p)) = p

\* DavResource.parent_id
resource_parent_id(h, d) == IF h[d].parent_id = 0 THEN None ELSE h[d].parent_id - 1

by_name(h, path) ==
    LET S == {d \in DOMAIN h : Path(h, d) = path}
    IN  IF path = <<>> \/ S = {} THEN None ELSE Min(S)

by_id(h, d) == IF d \in DOMAIN h /\ Path(h, d) # <<>> THEN d ELSE None

subtree(h, path) ==
    {d \in DOMAIN h : Path(h, d) # <<>> /\ IsPrefix(path, Path(h, d))}

subtree_with_depth(h, path, depth) ==
    {d \in subtree(h, path) : Len(Path(h, d)) <= Len(path) + depth}

is_ancestor_of(h, ancestor, descendant) ==
    /\ Path(h, ancestor) # <<>>
    /\ Path(h, descendant) # <<>>
    /\ IsPrefix(Path(h, ancestor), Path(h, descendant))

\* the ordering key used to walk a tree top-down: depth first, then id
hierarchy_sequence(h, d) == <<Len(Path(h, d)), d>>

SeqLess(s, t) == s[1] < t[1] \/ (s[1] = t[1] /\ s[2] < t[2])

RECURSIVE SortBySequence(_, _)
SortBySequence(h, S) ==
    IF S = {} THEN <<>>
    ELSE LET m == CHOOSE x \in S : \A y \in S \ {x} :
                      SeqLess(hierarchy_sequence(h, x), hierarchy_sequence(h, y))
         IN  <<m>> \o SortBySequence(h, S \ {m})

\* map_parent: the parent resource of a path and the last segment
\* [found, parent (None: the account root), name]
map_parent(h, path) ==
    IF Len(path) = 1
    THEN [found |-> TRUE, parent |-> None, name |-> path[1]]
    ELSE LET p == by_name(h, SubSeq(path, 1, Len(path) - 1))
         IN  [found |-> p # None, parent |-> p, name |-> path[Len(path)]]

RECURSIVE SumSize(_, _)
SumSize(h, S) ==
    IF S = {} THEN 0
    ELSE LET d == CHOOSE x \in S : TRUE IN size(h[d]) + SumSize(h, S \ {d})

-----------------------------------------------------------------------------
(* ACL evaluator *)

shared_containers(h, acls) == {d \in DOMAIN h : acls \subseteq h[d].acls}

validate_acl(h, account_id, document_id, acl) ==
    is_member(account_id) \/ (document_id \in DOMAIN h /\ acl \in h[document_id].acls)

-----------------------------------------------------------------------------
(* Store writes *)

StorePut(st, account_id, document_id, node) ==
    [st EXCEPT ![account_id] =
        [d \in DOMAIN @ \cup {document_id} |-> IF d = document_id THEN node ELSE @[d]]]

StoreDelete(st, account_id, ids) ==
    [st EXCEPT ![account_id] = [d \in DOMAIN @ \ ids |-> @[d]]]

\* assign_document_ids: reserves a contiguous range of n ids of the allocator
\* nid and returns its highest
assign_document_ids(nid, account_id, n) == nid[account_id] + n - 1

-----------------------------------------------------------------------------
(* Destination *)

DefaultDestination ==
    [account_id |-> 0, new_name |-> NoName, document_id |-> None,
     parent_id |-> None, is_container |-> TRUE]

from_dav_resource(h, d) ==
    [account_id |-> None, new_name |-> NoName, document_id |-> d,
     parent_id |-> resource_parent_id(h, d), is_container |-> is_container(h[d])]

FileItemId(h, d) ==
    [document_id |-> d, parent_id |-> resource_parent_id(h, d),
     is_container |-> is_container(h[d])]

NoItem == [document_id |-> None, parent_id |-> None, is_container |-> FALSE]

-----------------------------------------------------------------------------
(* The COPY/MOVE request: locals of handle_file_copy_move_request.          *)
(* pc is the handler's position: idle, headers, quota, delete, inner,       *)
(* rename, done.  files0 is the store when the request started, commits     *)
(* the batches the request has committed so far, and op the path taken at   *)
(* lines 137-148 (rename_item, or the copy/move engine).                    *)

IdleCm ==
    [pc |-> "idle", is_move |-> FALSE, from_account_id |-> 0, from_path |-> <<>>,
     to_account_id |-> 0, destination_resource_name |-> <<>>,
     overwrite_fail |-> FALSE, depth |-> "Infinity",
     from_resource |-> NoItem, destination |-> DefaultDestination,
     delete_destination |-> <<>>, is_overwrite |-> FALSE, status |-> 0,
     acl_validated |-> FALSE, headers_validated |-> FALSE,
     quota_checked |-> FALSE, space_needed |-> 0,
     from_files |-> <<>>, to_files |-> <<>>, files0 |-> <<>>,
     commits |-> <<>>, id_map |-> <<>>, op |-> ""]

Respond(r, status) == [r EXCEPT !.pc = "done", !.status = status]

\* lines 137-148: the same-location and rename tests
IsSameLocation(from_account_id, from_resource, destination, delete_destination) ==
    /\ from_account_id = destination.account_id
    /\ delete_destination = <<>>
    /\ from_resource.document_id = destination.document_id

IsRename(is_move, from_account_id, from_resource, destination, delete_destination) ==
    /\ from_account_id = destination.account_id
    /\ delete_destination = <<>>
    /\ from_resource.parent_id = destination.parent_id
    /\ destination.new_name # NoName
    /\ is_move

\* lines 150-173: destination ACLs
DestinationAclOk(to_files, to_account_id, destination, delete_destination) ==
    IF destination.document_id # None
    THEN /\ delete_destination # <<>> =>
                validate_acl(to_files, to_account_id,
                             delete_destination[1].document_id, "Delete")
         /\ validate_acl(to_files, to_account_id, destination.document_id, "Modify")
    ELSE is_member(to_account_id)

\* lines 59-81: source ACLs
SourceAclOk(from_files, from_account_id, from_path, is_move) ==
    \/ is_member(from_account_id)
    \/ subtree(from_files, from_path) \subseteq
          shared_containers(from_files,
                            IF is_move THEN {"Read", "Modify"} ELSE {"Read"})

\* an existing destination is marked for deletion whatever Overwrite says
MapDestinationStatus_IgnoresOverwrite(found, exists, overwrite_fail) ==
    IF ~found THEN 409 ELSE 0

\* lines 112-134: the status the destination mapping answers (0: it goes on)
MapDestinationStatus(found, exists, overwrite_fail) ==
    IF ~found THEN 409
    ELSE IF exists /\ overwrite_fail THEN 412
    ELSE 0

\* lines 47-173: everything up to validate_headers
ValidateRequest(is_move, from_account_id, from_path, to_account_id, destination_resource_name, overwrite_fail, depth) ==
    LET from_files == files[from_account_id]
        to_files == files[to_account_id]
        r0 == [IdleCm EXCEPT !.is_move = is_move,
                             !.from_account_id = from_account_id,
                             !.from_path = from_path,
                             !.to_account_id = to_account_id,
                             !.destination_resource_name = destination_resource_name,
                             !.overwrite_fail = overwrite_fail,
                             !.depth = depth,
                             !.from_files = from_files,
                             !.to_files = to_files,
                             !.files0 = files]
        from_id == by_name(from_files, from_path)
    IN
    IF from_id = None THEN Respond(r0, 404)
    ELSE
    LET from_resource == FileItemId(from_files, from_id)
        r1 == [r0 EXCEPT !.from_resource = from_resource]
    IN
    IF ~SourceAclOk(from_files, from_account_id, from_path, is_move)
    THEN Respond(r1, 403)
    ELSE IF destination_resource_name = <<>> THEN Respond(r1, 502)
    ELSE
    LET mp == map_parent(to_files, destination_resource_name)
        existing == IF mp.found THEN by_name(to_files, destination_resource_name)
                                ELSE None
        refused == MapDestinationStatus(mp.found, existing # None, overwrite_fail)
    IN
    IF refused # 0 THEN Respond(r1, refused)
    ELSE
    LET delete_destination ==
            IF existing # None
            THEN <<[from_dav_resource(to_files, existing)
                        EXCEPT !.account_id = to_account_id]>>
            ELSE <<>>
        destination ==
            [(IF mp.parent # None THEN from_dav_resource(to_files, mp.parent)
                                  ELSE DefaultDestination)
                EXCEPT !.new_name = mp.name, !.account_id = to_account_id]
        r2 == [r1 EXCEPT !.destination = destination,
                         !.delete_destination = delete_destination]
    IN
    IF IsSameLocation(from_account_id, from_resource, destination, delete_destination)
    THEN Respond(r2, 502)
    ELSE IF IsRename(is_move, from_account_id, from_resource, destination,
                     delete_destination)
    THEN [r2 EXCEPT !.pc = "rename", !.op = "rename"]
    ELSE IF ~DestinationAclOk(to_files, to_account_id, destination, delete_destination)
    THEN Respond(r2, 403)
    ELSE [r2 EXCEPT !.pc = "headers", !.op = "engine", !.acl_validated = TRUE]

\* the request URIs tried: every stored path, one path that resolves to nothing
ResourcePaths(account_id) ==
    {Path(files[account_id], d) : d \in DOMAIN files[account_id]} \ {<<>>}

SourcePaths(account_id) == ResourcePaths(account_id) \cup {<<"b">>}

DestinationPaths(account_id) ==
    {<<>>} \cup
    {Append(p, n) : p \in ResourcePaths(account_id) \cup {<<>>, <<"b">>}, n \in Names}

CMStart ==
    /\ cm.pc = "idle"
    /\ requests < MaxRequests
    /\ \E is_move \in BOOLEAN, from_account_id \in Accounts, to_account_id \in Accounts,
          overwrite_fail \in BOOLEAN, depth \in Depths :
       \E from_path \in SourcePaths(from_account_id),
          destination_resource_name \in DestinationPaths(to_account_id) :
          cm' = ValidateRequest(is_move, from_account_id, from_path, to_account_id,
                                destination_resource_name, overwrite_fail, depth)
    /\ requests' = requests + 1
    /\ UNCHANGED <<other_handlers, files, next_document_id, calendars, pp>>

\* lines 175-202: validate_headers (the lock manager's verdict is an input)
CMValidateHeaders ==
    /\ cm.pc = "headers"
    /\ \E ok \in BOOLEAN :
          cm' = IF ok THEN [cm EXCEPT !.pc = "quota", !.headers_validated = TRUE]
                      ELSE Respond(cm, 412)
    /\ UNCHANGED <<other_handlers, files, next_document_id, requests, calendars, pp>>

\* the quota check is skipped for every MOVE
QuotaRequired_CopyOnly(is_move, from_account_id, to_account_id) == ~is_move

\* lines 204-205: is the quota check required
QuotaRequired(is_move, from_account_id, to_account_id) ==
    ~is_move \/ from_account_id # to_account_id

\* lines 206-213: space_needed
SpaceNeeded(from_files, document_id) ==
    SumSize(from_files, subtree(from_files, Path(from_files, document_id)))

\* lines 222-224
IsOverwrite(delete_destination, from_resource) ==
    delete_destination # <<>> /\
    (delete_destination[1].is_container \/ from_resource.is_container)

\* after the quota check: lines 221-231
AfterQuota(r) ==
    LET is_overwrite == IsOverwrite(r.delete_destination, r.from_resource)
        ids == subtree(r.to_files, r.destination_resource_name)
    IN  [r EXCEPT !.is_overwrite = is_overwrite,
                  !.delete_destination = IF is_overwrite THEN <<>> ELSE @,
                  !.pc = IF is_overwrite /\ ids # {} THEN "delete" ELSE "inner"]

\* the quota left to the destination account, as has_available_quota sees it
AvailableQuota == {1, 9}

\* lines 204-219: the quota check
CMQuota ==
    /\ cm.pc = "quota"
    /\ IF QuotaRequired(cm.is_move, cm.from_account_id, cm.to_account_id)
       THEN IF by_id(cm.from_files, cm.from_resource.document_id) = None
            THEN cm' = Respond(cm, 404)
            ELSE LET space_needed ==
                         SpaceNeeded(cm.from_files, cm.from_resource.document_id)
                     r == [cm EXCEPT !.quota_checked = TRUE,
                                     !.space_needed = space_needed]
                 IN  \E available \in AvailableQuota :
                        cm' = IF space_needed <= available
                              THEN AfterQuota(r) ELSE Respond(r, 507)
       ELSE cm' = AfterQuota(cm)
    /\ UNCHANGED <<other_handlers, files, next_document_id, requests, calendars, pp>>

\* lines 225-240: delete the existing destination subtree, in its own batch
CMDeleteDestination ==
    /\ cm.pc = "delete"
    /\ LET ids == subtree(cm.to_files, cm.destination_resource_name)
       IN  files' = StoreDelete(files, cm.destination.account_id, ids)
    /\ cm' = [cm EXCEPT !.pc = "inner", !.commits = Append(@, "delete")]
    /\ UNCHANGED <<other_handlers, next_document_id, requests, calendars, pp>>

-----------------------------------------------------------------------------
(* The inner operations.  Each returns what it did to the store:            *)
(*   [status, files, next, committed, id_map]                               *)
(* st is the live store (get_archive reads it), nid the id allocator.       *)

EmptyMap == [x \in {} |-> 0]

Outcome(status, st, nid, committed, id_map) ==
    [status |-> status, files |-> st, next |-> nid, committed |-> committed,
     id_map |-> id_map]

get_archive(st, account_id, document_id) == document_id \in DOMAIN st[account_id]

\* destination.document_id.map(|id| id + 1).unwrap_or(0)
ParentId(destination) ==
    IF destination.document_id # None THEN destination.document_id + 1 ELSE 0

Renamed(node, new_name) ==
    [node EXCEPT !.name = IF new_name # NoName THEN new_name ELSE @]

\* lines 690-728
copy_item(r, st, nid) ==
    LET from_account_id == r.from_account_id
        to_account_id == r.destination.account_id
        from_document_id == r.from_resource.document_id
        parent_id == ParentId(r.destination)
    IN
    IF ~get_archive(st, from_account_id, from_document_id)
    THEN Outcome(404, st, nid, FALSE, EmptyMap)
    ELSE
    LET node == Renamed([st[from_account_id][from_document_id]
                            EXCEPT !.parent_id = parent_id], r.destination.new_name)
        to_document_id == assign_document_ids(nid, to_account_id, 1)
    IN  Outcome(201, StorePut(st, to_account_id, to_document_id, node),
                [nid EXCEPT ![to_account_id] = @ + 1], TRUE, EmptyMap)

\* lines 432-475: the top-down copy loop over the sorted copy_files
\* acc = [ok, creates, id_map, next, new_name]
RECURSIVE CopyLoop(_, _, _, _, _, _)
CopyLoop(st, from_account_id, parent_id, copy_files, i, acc) ==
    IF i > Len(copy_files) \/ ~acc.ok THEN acc
    ELSE
    LET document_id == copy_files[i] IN
    IF ~get_archive(st, from_account_id, document_id)
    THEN [acc EXCEPT !.ok = FALSE]
    ELSE
    LET node_ == st[from_account_id][document_id]
        node == [Renamed(node_, acc.new_name) EXCEPT
                    !.parent_id = IF node_.parent_id \in DOMAIN acc.id_map
                                  THEN acc.id_map[node_.parent_id]
                                  ELSE parent_id]
        new_document_id == acc.next
    IN  CopyLoop(st, from_account_id, parent_id, copy_files, i + 1,
                 [acc EXCEPT !.creates = (new_document_id :> node) @@ @,
                             !.id_map = (document_id + 1 :> new_document_id + 1) @@ @,
                             !.next = @ - 1,
                             !.new_name = NoName])

\* Depth infinity selects no more than Depth 1 does
CopyFiles_DepthOne(from_files, from_document_id, depth) ==
    subtree_with_depth(from_files, Path(from_files, from_document_id), 1)

\* Depth 1 selects the whole subtree, as Depth infinity does
CopyFiles_WholeSubtree(from_files, from_document_id, depth) ==
    subtree(from_files, Path(from_files, from_document_id))

\* lines 387-415: the records selected by Depth
CopyFiles(from_files, from_document_id, depth) ==
    IF depth = "One"
    THEN subtree_with_depth(from_files, Path(from_files, from_document_id), 1)
    ELSE subtree(from_files, Path(from_files, from_document_id))

StoreCreate(st, account_id, creates) ==
    [st EXCEPT ![account_id] =
        [d \in DOMAIN @ \cup DOMAIN creates |->
            IF d \in DOMAIN creates THEN creates[d] ELSE @[d]]]

\* lines 378-504
copy_container(r, st, nid, delete_source) ==
    IF r.depth = "Zero" THEN copy_item(r, st, nid)
    ELSE
    LET from_account_id == r.from_account_id
        to_account_id == r.destination.account_id
        from_document_id == r.from_resource.document_id
        parent_id == ParentId(r.destination)
    IN
    IF by_id(r.from_files, from_document_id) = None
    THEN Outcome(404, st, nid, FALSE, EmptyMap)
    ELSE
    LET copy_files == SortBySequence(r.from_files,
                          CopyFiles(r.from_files, from_document_id, r.depth))
        nid1 == [nid EXCEPT ![to_account_id] = @ + Len(copy_files)]
        acc == CopyLoop(st, from_account_id, parent_id, copy_files, 1,
                        [ok |-> TRUE, creates |-> EmptyMap, id_map |-> EmptyMap,
                         next |-> assign_document_ids(nid, to_account_id,
                                                      Len(copy_files)),
                         new_name |-> r.destination.new_name])
        delete_files == IF delete_source THEN {copy_files[i] : i \in 1..Len(copy_files)}
                                         ELSE {}
    IN
    IF ~acc.ok THEN Outcome(404, st, nid1, FALSE, EmptyMap)
    ELSE Outcome(201,
                 StoreDelete(StoreCreate(st, to_account_id, acc.creates),
                             from_account_id, delete_files),
                 nid1, TRUE, acc.id_map)

\* lines 316-376
move_container(r, st, nid) ==
    LET from_account_id == r.from_account_id
        to_account_id == r.destination.account_id
        from_document_id == r.from_resource.document_id
        parent_id == ParentId(r.destination)
    IN
    IF from_account_id = to_account_id
    THEN IF parent_id # 0 /\ is_ancestor_of(r.to_files, from_document_id, parent_id - 1)
         THEN Outcome(502, st, nid, FALSE, EmptyMap)
         ELSE IF ~get_archive(st, from_account_id, from_document_id)
         THEN Outcome(404, st, nid, FALSE, EmptyMap)
         ELSE LET new_node == Renamed([st[from_account_id][from_document_id]
                                          EXCEPT !.parent_id = parent_id],
                                      r.destination.new_name)
              IN  Outcome(201, StorePut(st, from_account_id, from_document_id, new_node),
                          nid, TRUE, EmptyMap)
    ELSE copy_container(r, st, nid, TRUE)

\* the overwritten record takes the source's name and parent along with its content
overwrite_item_WholeRecord(r, st, nid) ==
    LET destination == r.delete_destination[1]
        from_account_id == r.from_account_id
        to_account_id == destination.account_id
        from_document_id == r.from_resource.document_id
        to_document_id == destination.document_id
    IN
    IF ~get_archive(st, to_account_id, to_document_id)
       \/ ~get_archive(st, from_account_id, from_document_id)
    THEN Outcome(404, st, nid, FALSE, EmptyMap)
    ELSE Outcome(204, StorePut(st, to_account_id, to_document_id,
                               st[from_account_id][from_document_id]),
                 nid, TRUE, EmptyMap)

\* lines 571-624
overwrite_item(r, st, nid) ==
    LET destination == r.delete_destination[1]
        from_account_id == r.from_account_id
        to_account_id == destination.account_id
        from_document_id == r.from_resource.document_id
        to_document_id == destination.document_id
    IN
    IF ~get_archive(st, to_account_id, to_document_id)
       \/ ~get_archive(st, from_account_id, from_document_id)
    THEN Outcome(404, st, nid, FALSE, EmptyMap)
    ELSE
    LET dest_node == st[to_account_id][to_document_id]
        source_node == [st[from_account_id][from_document_id] EXCEPT
                           !.name = IF destination.new_name # NoName
                                    THEN destination.new_name ELSE dest_node.name,
                           !.parent_id = dest_node.parent_id]
    IN  Outcome(204, StorePut(st, to_account_id, to_document_id, source_node),
                nid, TRUE, EmptyMap)

\* lines 507-568
overwrite_and_delete_item(r, st, nid) ==
    LET o == overwrite_item(r, st, nid) IN
    IF ~o.committed THEN o
    ELSE [o EXCEPT !.files = StoreDelete(@, r.from_account_id,
                                         {r.from_resource.document_id})]

\* lines 627-687
move_item(r, st, nid) ==
    LET from_account_id == r.from_account_id
        to_account_id == r.destination.account_id
        from_document_id == r.from_resource.document_id
        parent_id == ParentId(r.destination)
    IN
    IF ~get_archive(st, from_account_id, from_document_id)
    THEN Outcome(404, st, nid, FALSE, EmptyMap)
    ELSE
    LET new_node == Renamed([st[from_account_id][from_document_id]
                                EXCEPT !.parent_id = parent_id], r.destination.new_name)
    IN
    IF from_account_id = to_account_id
    THEN Outcome(201, StorePut(st, from_account_id, from_document_id, new_node),
                 nid, TRUE, EmptyMap)
    ELSE Outcome(201,
                 StoreDelete(StorePut(st, to_account_id,
                                      assign_document_ids(nid, to_account_id, 1),
                                      new_node),
                             from_account_id, {from_document_id}),
                 [nid EXCEPT ![to_account_id] = @ + 1], TRUE, EmptyMap)

\* lines 731-769
rename_item(r, st, nid) ==
    LET from_account_id == r.from_account_id
        from_document_id == r.from_resource.document_id
    IN
    IF ~get_archive(st, from_account_id, from_document_id)
    THEN Outcome(404, st, nid, FALSE, EmptyMap)
    ELSE Outcome(201,
                 StorePut(st, from_account_id, from_document_id,
                          Renamed(st[from_account_id][from_document_id],
                                  r.destination.new_name)),
                 nid, TRUE, EmptyMap)

\* lines 242-283: the dispatch on (is_container, is_move)
Dispatch(r, st, nid) ==
    IF r.from_resource.is_container
    THEN IF r.is_move THEN move_container(r, st, nid)
                      ELSE copy_container(r, st, nid, FALSE)
    ELSE IF r.is_move
         THEN IF r.delete_destination # <<>> THEN overwrite_and_delete_item(r, st, nid)
                                             ELSE move_item(r, st, nid)
         ELSE IF r.delete_destination # <<>> THEN overwrite_item(r, st, nid)
                                             ELSE copy_item(r, st, nid)

\* the status of the inner operation is returned as it is
FinalStatus_AsIs(is_overwrite, status) == status

\* lines 284-290: 201 becomes 204 when overwriting
FinalStatus(is_overwrite, status) ==
    IF is_overwrite /\ status = 201 THEN 204 ELSE status

Finish(r, o, what) ==
    [r EXCEPT !.pc = "done",
              !.status = o.status,
              !.commits = IF o.committed THEN Append(@, what) ELSE @,
              !.id_map = o.id_map]

CMInner ==
    /\ cm.pc = "inner"
    /\ LET o == Dispatch(cm, files, next_document_id)
       IN  /\ files' = o.files
           /\ next_document_id' = o.next
           /\ cm' = Finish(cm, [o EXCEPT !.status = FinalStatus(cm.is_overwrite, @)],
                           "write")
    /\ UNCHANGED <<other_handlers, requests, calendars, pp>>

CMRename ==
    /\ cm.pc = "rename"
    /\ LET o == rename_item(cm, files, next_document_id)
       IN  /\ files' = o.files
           /\ next_document_id' = o.next
           /\ cm' = Finish(cm, o, "rename")
    /\ UNCHANGED <<other_handlers, requests, calendars, pp>>

\* a request abort cancels the task at a suspension point; status 0: no response
CMCancel ==
    /\ cm.pc \in {"headers", "quota", "delete", "inner", "rename"}
    /\ cm' = [cm EXCEPT !.pc = "done", !.status = 0]
    /\ UNCHANGED <<other_handlers, files, next_document_id, requests, calendars, pp>>

CMFinish ==
    /\ cm.pc = "done"
    /\ cm' = IdleCm
    /\ UNCHANGED <<other_handlers, files, next_document_id, requests, calendars, pp>>

-----------------------------------------------------------------------------
(* The file stores the COPY/MOVE engine starts from.                        *)
(*   account 0:  a/  a/b/  a/b/c (2 bytes)  c (1 byte)                      *)
(*   account 1:  a/  a/b/  a/c (3 bytes, read only)  c (1 byte), shared     *)
(*               with the token                                             *)

AllAcls == {"Read", "Modify", "Delete"}

InitFiles ==
    [account_id \in Accounts |->
        IF account_id = 0
        THEN (0 :> FileNode(0, "a", 0, {})) @@
             (1 :> FileNode(1, "b", 0, {})) @@
             (2 :> FileNode(2, "c", 2, {})) @@
             (3 :> FileNode(0, "c", 1, {}))
        ELSE (0 :> FileNode(0, "a", 0, AllAcls)) @@
             (1 :> FileNode(1, "b", 0, AllAcls)) @@
             (2 :> FileNode(1, "c", 3, {"Read"})) @@
             (3 :> FileNode(0, "c", 1, AllAcls))]

InitCopyMove ==
    /\ files = InitFiles
    /\ next_document_id = [account_id \in Accounts |-> 4]
    /\ cm = IdleCm
    /\ requests = 0
    /\ calendars = <<>>
    /\ pp = <<>>
    /\ OthersIdle

NextCopyMove ==
    \/ CMStart
    \/ CMValidateHeaders
    \/ CMQuota
    \/ CMDeleteDestination
    \/ CMInner
    \/ CMRename
    \/ CMCancel
    \/ CMFinish

SpecCopyMove == InitCopyMove /\ [][NextCopyMove]_vars

-----------------------------------------------------------------------------
(* Calendar PROPPATCH (calendar/proppatch.rs).                              *)
(*                                                                          *)
(* Calendar and CalendarEvent records.  name/parent_id place the record in  *)
(* the hierarchy; strings are sequences of characters; an Option is a       *)
(* sequence of length at most 1; version is the record's version, whose     *)
(* low 32 bits end the stored blob and form the etag.                       *)

MaxSet == 2                 \* longest set list of a PROPPATCH
MaxRemove == 2              \* longest remove list of a PROPPATCH
LivePropertySize == 2       \* core.dav.live_property_size
MaxIcalSize == 2            \* core.dav.max_ical_size
DeadPropertySize == 4       \* core.dav.dead_property_size

Str(n) == [i \in 1..n |-> "x"]

DefaultTimezone == [tz |-> "Default", id |-> <<>>]

Calendar(name, display_name, description, acls) ==
    [kind |-> "Calendar", parent_id |-> 0, name |-> name,
     display_name |-> display_name, description |-> description,
     time_zone |-> DefaultTimezone, created |-> 0, dead_properties |-> <<>>,
     acls |-> acls, version |-> 1]

CalendarEvent(parent_id, name) ==
    [kind |-> "CalendarEvent", parent_id |-> parent_id, name |-> name,
     display_name |-> <<>>, description |-> <<>>,
     time_zone |-> DefaultTimezone, created |-> 0, dead_properties |-> <<>>,
     acls |-> {}, version |-> 1]

is_calendar(r) == r.kind = "Calendar"

\* the bytes of a u32, most significant first, and back
U32_LEN == 4
to_be_bytes(n) == <<(n \div 16777216) % 256, (n \div 65536) % 256, (n \div 256) % 256, n % 256>>
from_be_bytes(v) == ((v[1] * 256 + v[2]) * 256 + v[3]) * 256 + v[4]
from_le_bytes(v) == ((v[4] * 256 + v[3]) * 256 + v[2]) * 256 + v[1]

\* the value blob of a record: its content (here the length of its name)
\* followed by the 4 bytes of its version
Serialize(record) == <<Len(record.name)>> \o to_be_bytes(record.version)

\* Archive::etag (common/mod.rs 91-95): the quoted hash, which is the version
\* suffix of the blob the archive was read from
etag(archive) ==
    LET value == Serialize(archive)
    IN  <<"\"", from_be_bytes(SubSeq(value, Len(value) - U32_LEN + 1, Len(value))), "\"">>

\* the batch of an update: the index and log operations around the new value
UpdateBatch(account_id, document_id, new_value) ==
    <<[type |-> "Update", account_id |-> account_id, document_id |-> document_id],
      [type |-> "Value", class |-> "Property", p_id |-> "Value", op |-> "Set",
       value |-> Serialize(new_value)],
      [type |-> "Log"]>>

\* the suffix is read least significant byte first
ExtractETag_LittleEndian(batch) ==
    LET IsSet(op) == op.type = "Value" /\ op.class = "Property" /\ op.p_id = "Value" /\ op.op = "Set"
        S == {i \in DOMAIN batch : IsSet(batch[i])}
        last == CHOOSE i \in S : \A j \in S : j <= i
    IN  IF S = {} THEN <<>>
        ELSE LET value == batch[last].value
             IN  IF Len(value) < U32_LEN THEN <<>>
                 ELSE <<"\"", from_le_bytes(SubSeq(value, Len(value) - U32_LEN + 1, Len(value))), "\"">>

\* ExtractETag for BatchBuilder (common/mod.rs 97-116): the last 4 bytes of the
\* last Property::Value set of the batch, quoted (<<>>: no etag)
ExtractETag(batch) ==
    LET IsSet(op) == op.type = "Value" /\ op.class = "Property" /\ op.p_id = "Value" /\ op.op = "Set"
        S == {i \in DOMAIN batch : IsSet(batch[i])}
        last == CHOOSE i \in S : \A j \in S : j <= i
    IN  IF S = {} THEN <<>>
        ELSE LET value == batch[last].value
             IN  IF Len(value) < U32_LEN THEN <<>>
                 ELSE <<"\"", from_be_bytes(SubSeq(value, Len(value) - U32_LEN + 1, Len(value))), "\"">>

\* DeadProperty bag
RECURSIVE bag_size(_)
bag_size(bag) == IF bag = <<>> THEN 0 ELSE Head(bag).size + bag_size(Tail(bag))

remove_element(bag, dead) == SelectSeq(bag, LAMBDA e : e.name # dead)

add_element(bag, dead, values_size) ==
    Append(bag, [name |-> dead, size |-> values_size])

DeadNames == {"Dead1", "Dead2"}
dead_size(dead) == 1

\* PropStat items: [prop, status, error, op]; op records the list the item answers
PropStat(prop, status, error, op) ==
    [prop |-> prop, status |-> status, error |-> error, op |-> op]

\* a bag that reaches the limit is accepted
DeadPropertyFits_AtMost(bag, values_size, dead) ==
    bag_size(bag) + values_size + dead_size(dead) <= DeadPropertySize

\* lines 367-368 / 435-436: the size test of a dead property set
DeadPropertyFits(bag, values_size, dead) ==
    bag_size(bag) + values_size + dead_size(dead) < DeadPropertySize

\* any timezone id is taken, the empty one too
valid_timezone_id_Any(tz_id) == TRUE

\* line 319: !tz_id.is_empty()
valid_timezone_id(tz_id) == tz_id # <<>>

\* lines 254-392: one iteration of apply_calendar_properties
\* a = [r (the calendar), items, has_errors]
ApplyCalendarProperty(a, property, value, is_update) ==
    LET ok(r) == [a EXCEPT !.r = r,
                           !.items = Append(@, PropStat(property, 200, "", "set"))]
        fail(status, error) ==
            [a EXCEPT !.items = Append(@, PropStat(property, status, error, "set")),
                      !.has_errors = TRUE]
    IN
    IF property = "DisplayName" /\ value.type = "String"
    THEN IF Len(value.s) <= LivePropertySize
         THEN ok([a.r EXCEPT !.display_name = value.s])
         ELSE fail(507, "")
    ELSE IF property = "CalendarDescription" /\ value.type = "String"
    THEN IF Len(value.s) <= LivePropertySize
         THEN ok([a.r EXCEPT !.description = <<value.s>>])
         ELSE fail(507, "")
    ELSE IF property = "CalendarTimezone" /\ value.type = "ICalendar"
    THEN IF value.size > MaxIcalSize THEN fail(507, "")
         ELSE IF ~value.is_timezone THEN fail(412, "valid-calendar-data")
         ELSE ok([a.r EXCEPT !.time_zone = [tz |-> "Custom", id |-> <<>>]])
    ELSE IF property = "TimezoneId" /\ value.type = "String"
    THEN IF valid_timezone_id(value.s)
         THEN ok([a.r EXCEPT !.time_zone = [tz |-> "IANA", id |-> value.s]])
         ELSE fail(412, "valid-timezone")
    ELSE IF property = "CreationDate" /\ value.type = "Timestamp"
    THEN [a EXCEPT !.r = [a.r EXCEPT !.created = value.dt]]
    ELSE IF property = "ResourceType" /\ value.type = "ResourceTypes"
    THEN IF \A rt \in value.types : rt \in {"Collection", "Calendar"}
         THEN fail(403, "valid-resource-type")
         ELSE ok(a.r)
    ELSE IF property \in DeadNames /\ value.type = "DeadProperty"
    THEN LET bag == IF is_update THEN remove_element(a.r.dead_properties, property)
                                 ELSE a.r.dead_properties
             r1 == [a.r EXCEPT !.dead_properties = bag]
         IN  IF DeadPropertyFits(bag, value.size, property)
             THEN ok([r1 EXCEPT !.dead_properties =
                         add_element(bag, property, value.size + dead_size(property))])
             ELSE [fail(507, "") EXCEPT !.r = r1]
    ELSE fail(409, "")

\* lines 407-461: one iteration of apply_event_properties
ApplyEventProperty(a, property, value, is_update) ==
    LET ok(r) == [a EXCEPT !.r = r,
                           !.items = Append(@, PropStat(property, 200, "", "set"))]
        fail(status, error) ==
            [a EXCEPT !.items = Append(@, PropStat(property, status, error, "set")),
                      !.has_errors = TRUE]
    IN
    IF property = "DisplayName" /\ value.type = "String"
    THEN IF Len(value.s) <= LivePropertySize
         THEN ok([a.r EXCEPT !.display_name = value.s])
         ELSE fail(507, "")
    ELSE IF property = "CreationDate" /\ value.type = "Timestamp"
    THEN [a EXCEPT !.r = [a.r EXCEPT !.created = value.dt]]
    ELSE IF property \in DeadNames /\ value.type = "DeadProperty"
    THEN LET bag == IF is_update THEN remove_element(a.r.dead_properties, property)
                                 ELSE a.r.dead_properties
             r1 == [a.r EXCEPT !.dead_properties = bag]
         IN  IF DeadPropertyFits(bag, value.size, property)
             THEN ok([r1 EXCEPT !.dead_properties =
                         add_element(bag, property, value.size + dead_size(property))])
             ELSE [fail(507, "") EXCEPT !.r = r1]
    ELSE fail(409, "")

\* apply_calendar_properties / apply_event_properties: the loop over the set list
RECURSIVE ApplyProperties(_, _, _)
ApplyProperties(a, properties, is_update) ==
    IF properties = <<>> THEN a
    ELSE LET p == Head(properties)
             a1 == IF is_calendar(a.r)
                   THEN ApplyCalendarProperty(a, p.property, p.value, is_update)
                   ELSE ApplyEventProperty(a, p.property, p.value, is_update)
         IN  ApplyProperties(a1, Tail(properties), is_update)

\* lines 504-532: one iteration of remove_calendar_properties
RemoveCalendarProperty(a, property) ==
    LET ok(r) == [a EXCEPT !.r = r,
                           !.items = Append(@, PropStat(property, 200, "", "remove"))]
    IN
    IF property = "CalendarDescription" THEN ok([a.r EXCEPT !.description = <<>>])
    ELSE IF property \in {"CalendarTimezone", "TimezoneId"}
    THEN ok([a.r EXCEPT !.time_zone = DefaultTimezone])
    ELSE IF property \in DeadNames
    THEN ok([a.r EXCEPT !.dead_properties = remove_element(@, property)])
    ELSE [a EXCEPT !.items = Append(@, PropStat(property, 409, "", "remove"))]

\* lines 472-495: one iteration of remove_event_properties
RemoveEventProperty(a, property) ==
    LET ok(r) == [a EXCEPT !.r = r,
                           !.items = Append(@, PropStat(property, 200, "", "remove"))]
    IN
    IF property = "DisplayName" THEN ok([a.r EXCEPT !.display_name = <<>>])
    ELSE IF property \in DeadNames
    THEN ok([a.r EXCEPT !.dead_properties = remove_element(@, property)])
    ELSE [a EXCEPT !.items = Append(@, PropStat(property, 409, "", "remove"))]

RECURSIVE RemoveProperties(_, _)
RemoveProperties(a, properties) ==
    IF properties = <<>> THEN a
    ELSE LET a1 == IF is_calendar(a.r)
                   THEN RemoveCalendarProperty(a, Head(properties))
                   ELSE RemoveEventProperty(a, Head(properties))
         IN  RemoveProperties(a1, Tail(properties))

\* the removes run before the sets whatever set_first says
PatchResource_RemoveFirst(archive, set, remove, set_first) ==
    LET a0 == [r |-> archive, items |-> <<>>, has_errors |-> FALSE]
        a1 == RemoveProperties(a0, remove)
    IN  ApplyProperties(a1, set, TRUE)

\* lines 154-181 / 200-215: the order of the remove and set phases
\* returns [r, items, has_errors]
PatchResource(archive, set, remove, set_first) ==
    LET a0 == [r |-> archive, items |-> <<>>, has_errors |-> FALSE]
        remove_before == ~set_first /\ remove # <<>>
        a1 == IF remove_before THEN RemoveProperties(a0, remove) ELSE a0
        remaining == IF remove_before THEN <<>> ELSE remove
        a2 == ApplyProperties(a1, set, TRUE)
    IN  IF ~a2.has_errors /\ remaining # <<>>
        THEN RemoveProperties(a2, remaining)
        ELSE a2

\* the batch is committed whatever the set phase answered
ShouldCommit_Always(is_success) == TRUE

\* lines 227-229: the batch is committed when the set phase succeeded
ShouldCommit(is_success) == is_success

\* lines 231-241: the response status
PropPatchStatus(ret, is_success) ==
    IF ret # "Minimal" \/ ~is_success THEN 207 ELSE 204

IdlePp ==
    [pc |-> "idle", account_id |-> 0, path |-> <<>>, set |-> <<>>, remove |-> <<>>,
     set_first |-> FALSE, ret |-> "Representation", document_id |-> None,
     archive |-> <<>>, new |-> <<>>, items |-> <<>>, is_success |-> FALSE,
     etag |-> <<>>, status |-> 0, committed |-> FALSE, calendars0 |-> <<>>]

\* lines 94-115: the ACL check of a non-member
PropPatchAclOk(h, account_id, document_id) ==
    \/ is_member(account_id)
    \/ IF is_calendar(h[document_id])
       THEN "Read" \in h[document_id].acls
       ELSE "ReadItems" \in h[resource_parent_id(h, document_id)].acls

\* lines 68-225: everything up to the commit
PropPatchRequest(account_id, path, set, remove, set_first, ret, headers_ok) ==
    LET resources == calendars[account_id]
        r0 == [IdlePp EXCEPT !.account_id = account_id, !.path = path, !.set = set,
                             !.remove = remove, !.set_first = set_first, !.ret = ret,
                             !.calendars0 = calendars]
        document_id == by_name(resources, path)
        answer(r, status) == [r EXCEPT !.pc = "done", !.status = status]
    IN
    IF document_id = None THEN answer(r0, 404)
    ELSE IF set = <<>> /\ remove = <<>> THEN answer(r0, 204)
    ELSE IF ~PropPatchAclOk(resources, account_id, document_id) THEN answer(r0, 403)
    ELSE
    LET archive == resources[document_id]
        r1 == [r0 EXCEPT !.document_id = document_id, !.archive = archive]
    IN
    IF ~headers_ok THEN answer(r1, 412)
    ELSE
    LET a == PatchResource(archive, set, remove, set_first)
        is_success == ~a.has_errors
        new == [a.r EXCEPT !.version = archive.version + 1]
        r2 == [r1 EXCEPT !.items = a.items, !.is_success = is_success,
                         !.new = IF is_success THEN new ELSE archive,
                         !.etag = IF is_success
                                  THEN ExtractETag(UpdateBatch(account_id, document_id, new))
                                  ELSE etag(archive),
                         !.status = PropPatchStatus(ret, is_success)]
    IN  IF ShouldCommit(is_success) THEN [r2 EXCEPT !.pc = "commit"]
                                    ELSE [r2 EXCEPT !.pc = "done"]

\* the values a set item may carry
SetItem(property, value) == [property |-> property, value |-> value]
String(n) == [type |-> "String", s |-> Str(n)]
ICalendar(n, is_timezone) == [type |-> "ICalendar", size |-> n, is_timezone |-> is_timezone]
ResourceTypes(types) == [type |-> "ResourceTypes", types |-> types]

\* property values: strings that fit and that do not fit the live sizes
FitLen == LivePropertySize
OverLen == LivePropertySize + 1

SetItems ==
    {SetItem("DisplayName", String(FitLen)), SetItem("DisplayName", String(OverLen)),
     SetItem("CalendarDescription", String(FitLen)),
     SetItem("CalendarTimezone", ICalendar(MaxIcalSize, TRUE)),
     SetItem("CalendarTimezone", ICalendar(MaxIcalSize, FALSE)),
     SetItem("TimezoneId", String(0)), SetItem("TimezoneId", String(FitLen)),
     SetItem("CreationDate", [type |-> "Timestamp", dt |-> 7]),
     SetItem("ResourceType", ResourceTypes({"Collection", "Calendar"})),
     SetItem("ResourceType", ResourceTypes({"Collection", "AddressBook"})),
     SetItem("Dead1", [type |-> "DeadProperty", size |-> 1]),
     SetItem("Dead1", [type |-> "DeadProperty", size |-> DeadPropertySize]),
     SetItem("GetETag", String(FitLen))}

RemoveItems == {"CalendarDescription", "TimezoneId", "Dead1", "DisplayName"}

SeqsUpTo(S, n) == UNION {[1..k -> S] : k \in 0..n}

PropPatchPaths == {<<"work">>, <<"work", "ev">>, <<"none">>}

PPStart ==
    /\ pp.pc = "idle"
    /\ requests < MaxRequests
    /\ \E account_id \in Accounts, path \in PropPatchPaths,
          set \in SeqsUpTo(SetItems, MaxSet), remove \in SeqsUpTo(RemoveItems, MaxRemove),
          set_first \in BOOLEAN, ret \in {"Minimal", "Representation"},
          headers_ok \in BOOLEAN :
          pp' = PropPatchRequest(account_id, path, set, remove, set_first, ret, headers_ok)
    /\ requests' = requests + 1
    /\ UNCHANGED <<other_handlers, files, next_document_id, cm, calendars>>

\* lines 227-229: commit_batch
PPCommit ==
    /\ pp.pc = "commit"
    /\ calendars' = [calendars EXCEPT ![pp.account_id][pp.document_id] = pp.new]
    /\ pp' = [pp EXCEPT !.pc = "done", !.committed = TRUE]
    /\ UNCHANGED <<other_handlers, files, next_document_id, cm, requests>>

\* the request is aborted while it waits for the commit; status 0: no response
PPCancel ==
    /\ pp.pc = "commit"
    /\ pp' = [pp EXCEPT !.pc = "done", !.status = 0]
    /\ UNCHANGED <<other_handlers, files, next_document_id, cm, requests, calendars>>

PPFinish ==
    /\ pp.pc = "done"
    /\ pp' = IdlePp
    /\ UNCHANGED <<other_handlers, files, next_document_id, cm, requests, calendars>>

(* The calendar stores PROPPATCH starts from: in each account a calendar   *)
(* work/ holding an event work/ev; account 1 grants the token Read and     *)
(* its calendar has an IANA time zone.                                     *)
InitCalendars ==
    [account_id \in Accounts |->
        (0 :> [Calendar("work", Str(1), <<Str(1)>>,
                        IF account_id = 0 THEN {} ELSE {"Read"})
                  EXCEPT !.time_zone = IF account_id = 0 THEN DefaultTimezone
                                       ELSE [tz |-> "IANA", id |-> Str(1)]]) @@
        (1 :> CalendarEvent(1, "ev"))]

InitPropPatch ==
    /\ files = InitFiles
    /\ next_document_id = [account_id \in Accounts |-> 4]
    /\ cm = IdleCm
    /\ requests = 0
    /\ calendars = InitCalendars
    /\ pp = IdlePp
    /\ OthersIdle

NextPropPatch ==
    \/ PPStart
    \/ PPCommit
    \/ PPCancel
    \/ PPFinish

SpecPropPatch == InitPropPatch /\ [][NextPropPatch]_vars

-----------------------------------------------------------------------------
(* Concurrent PROPPATCH requests.  No lock is held across the handler's     *)
(* suspension points: a second request may read and commit between the      *)
(* get_archive and the commit_batch of the first.  pp holds one request     *)
(* record per client; each client issues one request.                       *)

MaxClients == 2             \* requests in flight together

Clients == 1..MaxClients

\* the archive store's optimistic concurrency: the write lands iff the version
\* of prev_archive is the stored one
update(stored, prev_archive, new_value) ==
    IF stored.version = prev_archive.version
    THEN [ok |-> TRUE, value |-> new_value]
    ELSE [ok |-> FALSE, value |-> stored]

\* the handler reads the archive again when it commits
PrevArchive_ReadAgain(r, stored) == stored

\* lines 117-122, 146-148, 183-190: the archive handed to update is the one
\* read at the start of the request
PrevArchive(r, stored) == r.archive

\* the requests the clients issue
ClientSetLists ==
    {<<>>, <<SetItem("DisplayName", String(FitLen))>>,
     <<SetItem("DisplayName", String(OverLen))>>,
     <<SetItem("TimezoneId", String(FitLen))>>}

ClientRemoveLists == {<<>>, <<"CalendarDescription">>}

\* lines 68-225 of one client's request
ClientStart(i) ==
    /\ pp[i].pc = "idle"
    /\ requests < MaxClients
    /\ \E account_id \in Accounts, path \in {<<"work">>, <<"work", "ev">>},
          set \in ClientSetLists, remove \in ClientRemoveLists :
          pp' = [pp EXCEPT ![i] = PropPatchRequest(account_id, path, set, remove,
                                                   FALSE, "Representation", TRUE)]
    /\ requests' = requests + 1
    /\ UNCHANGED <<other_handlers, files, next_document_id, cm, calendars>>

\* lines 227-229: commit_batch; a conflict is answered 412
ClientCommit(i) ==
    /\ pp[i].pc = "commit"
    /\ LET stored == calendars[pp[i].account_id][pp[i].document_id]
           u == update(stored, PrevArchive(pp[i], stored), pp[i].new)
       IN  /\ calendars' = [calendars EXCEPT
                                ![pp[i].account_id][pp[i].document_id] = u.value]
           /\ pp' = [pp EXCEPT ![i] =
                        IF u.ok THEN [@ EXCEPT !.pc = "done", !.committed = TRUE]
                                ELSE [@ EXCEPT !.pc = "done", !.status = 412]]
    /\ UNCHANGED <<other_handlers, files, next_document_id, cm, requests>>

\* the request is aborted while it waits for the commit; status 0: no response
ClientCancel(i) ==
    /\ pp[i].pc = "commit"
    /\ pp' = [pp EXCEPT ![i] = [@ EXCEPT !.pc = "done", !.status = 0]]
    /\ UNCHANGED <<other_handlers, files, next_document_id, cm, requests, calendars>>

InitClients ==
    /\ files = InitFiles
    /\ next_document_id = [account_id \in Accounts |-> 4]
    /\ cm = IdleCm
    /\ requests = 0
    /\ calendars = InitCalendars
    /\ pp = [i \in Clients |-> IdlePp]
    /\ OthersIdle

NextClients ==
    \E i \in Clients :
        \/ ClientStart(i)
        \/ ClientCommit(i)
        \/ ClientCancel(i)

SpecClients == InitClients /\ [][NextClients]_vars

-----------------------------------------------------------------------------
(* Sequences of PROPPATCH requests on the dead properties of account 0's    *)
(* calendar and event: each request starts from the store the requests      *)
(* before it left.                                                          *)

MaxDeadRequests == 3

\* dead values of size 0 (an empty element) and 1, next to a set that is rejected
DeadSetItems ==
    {SetItem(dead, [type |-> "DeadProperty", size |-> n]) : dead \in DeadNames, n \in {0, 1}}
        \cup {SetItem("DisplayName", String(OverLen))}

DPStart ==
    /\ pp.pc = "idle"
    /\ requests < MaxDeadRequests
    /\ \E path \in {<<"work">>, <<"work", "ev">>},
          set \in SeqsUpTo(DeadSetItems, MaxSet), remove \in SeqsUpTo(DeadNames, 1),
          set_first \in BOOLEAN :
          pp' = PropPatchRequest(0, path, set, remove, set_first, "Representation", TRUE)
    /\ requests' = requests + 1
    /\ UNCHANGED <<other_handlers, files, next_document_id, cm, calendars>>

NextDeadProps ==
    \/ DPStart
    \/ PPCommit
    \/ PPCancel
    \/ PPFinish

SpecDeadProps == InitPropPatch /\ [][NextDeadProps]_vars

-----------------------------------------------------------------------------
(* Card GET (card/get.rs) and the ETags of responses.                       *)
(*                                                                          *)
(* AddressBook and ContactCard records are placed in the hierarchy as the   *)
(* calendar records are.  reported[k] is the ETag header of the last        *)
(* response about resource k = <<collection, account, document id>>, <<>>   *)
(* when there was none.                                                     *)

MaxEtagRequests == 3

IdleGet ==
    [pc |-> "idle", account_id |-> 0, path |-> <<>>, is_head |-> FALSE,
     document_id |-> None, status |-> 0, etag |-> <<>>, has_body |-> FALSE]

\* lines 41-119 of card/get.rs; path <<>>: the URI names no resource
CardGetRequest(account_id, path, headers_ok, is_head) ==
    LET resources == cards[account_id]
        r0 == [IdleGet EXCEPT !.pc = "done", !.account_id = account_id, !.path = path,
                              !.is_head = is_head]
        document_id == by_name(resources, path)
    IN
    IF path = <<>> THEN [r0 EXCEPT !.status = 405]
    ELSE IF document_id = None THEN [r0 EXCEPT !.status = 404]
    ELSE IF resources[document_id].kind = "AddressBook" THEN [r0 EXCEPT !.status = 405]
    ELSE IF /\ ~is_member(account_id)
            /\ "ReadItems" \notin resources[resource_parent_id(resources, document_id)].acls
    THEN [r0 EXCEPT !.status = 403]
    ELSE
    LET card_ == resources[document_id]
        r1 == [r0 EXCEPT !.document_id = document_id]
    IN  IF ~headers_ok THEN [r1 EXCEPT !.status = 412]
        ELSE [r1 EXCEPT !.status = 200, !.etag = etag(card_), !.has_body = ~is_head]

CardGet ==
    /\ get.pc = "idle"
    /\ requests < MaxEtagRequests
    /\ \E account_id \in Accounts, path \in {<<>>, <<"book">>, <<"book", "card">>, <<"none">>}, headers_ok \in BOOLEAN,
          is_head \in BOOLEAN :
          get' = CardGetRequest(account_id, path, headers_ok, is_head)
    /\ requests' = requests + 1
    /\ UNCHANGED <<files, next_document_id, cm, calendars, pp, cards, reported, uri, urn,
                   query, del>>

\* the GET response is returned: its ETag header is the last one reported
GetRespond ==
    /\ get.pc = "done"
    /\ reported' = IF get.status = 200
                   THEN [reported EXCEPT ![<<"Card", get.account_id, get.document_id>>] = get.etag]
                   ELSE reported
    /\ get' = IdleGet
    /\ UNCHANGED <<files, next_document_id, cm, requests, calendars, pp, cards, uri, urn,
                   query, del>>

\* a PROPPATCH that sets a display name that fits, or one that does not
EtagPropPatch ==
    /\ pp.pc = "idle"
    /\ requests < MaxEtagRequests
    /\ \E account_id \in Accounts, path \in {<<"work">>, <<"work", "ev">>},
          n \in {FitLen, OverLen}, ret \in {"Minimal", "Representation"} :
          pp' = PropPatchRequest(account_id, path, <<SetItem("DisplayName", String(n))>>,
                                 <<>>, FALSE, ret, TRUE)
    /\ requests' = requests + 1
    /\ UNCHANGED <<files, next_document_id, cm, calendars, other_handlers>>

\* lines 231-241 of calendar/proppatch.rs: the response carries the etag
PropPatchRespond ==
    /\ pp.pc = "done"
    /\ reported' = IF pp.status \in {204, 207} /\ pp.document_id # None
                   THEN [reported EXCEPT ![<<"Calendar", pp.account_id, pp.document_id>>] = pp.etag]
                   ELSE reported
    /\ pp' = IdlePp
    /\ UNCHANGED <<files, next_document_id, cm, requests, calendars, cards, get, uri, urn,
                   query, del>>

(* Each account holds an address book book/ with a card book/card; account *)
(* 1 grants the token ReadItems on its address book.                       *)
InitCards ==
    [account_id \in Accounts |->
        (0 :> [kind |-> "AddressBook", parent_id |-> 0, name |-> "book", version |-> 1,
               acls |-> IF account_id = 0 THEN {} ELSE {"ReadItems"}]) @@
        (1 :> [kind |-> "ContactCard", parent_id |-> 1, name |-> "card", version |-> 1,
               acls |-> {}])]

InitEtag ==
    /\ files = InitFiles
    /\ next_document_id = [account_id \in Accounts |-> 4]
    /\ cm = IdleCm
    /\ requests = 0
    /\ calendars = InitCalendars
    /\ pp = IdlePp
    /\ cards = InitCards
    /\ get = IdleGet
    /\ reported = [k \in {"Card", "Calendar"} \X Accounts \X {0, 1} |-> <<>>]
    /\ uri = <<>>
    /\ urn = <<>>
    /\ query = <<>>
    /\ del = <<>>

NextEtag ==
    \/ CardGet
    \/ GetRespond
    \/ EtagPropPatch
    \/ PPCommit
    \/ PPCancel
    \/ PropPatchRespond

SpecEtag == InitEtag /\ [][NextEtag]_vars

-----------------------------------------------------------------------------
(* The URI resolver (common/uri.rs).  A URI is a sequence of characters.    *)

\* str::find from index i: the first index at which pat occurs, 0 when none
RECURSIVE find(_, _, _)
find(s, pat, i) ==
    IF i + Len(pat) - 1 > Len(s) THEN 0
    ELSE IF SubSeq(s, i, i + Len(pat) - 1) = pat THEN i
    ELSE find(s, pat, i + 1)

\* str::split_once: <<before, after>>, <<>> when pat does not occur
split_once(s, pat) ==
    LET i == find(s, pat, 1)
    IN  IF i = 0 THEN <<>> ELSE <<SubSeq(s, 1, i - 1), SubSeq(s, i + Len(pat), Len(s))>>

RECURSIVE trim_end_matches(_, _)
trim_end_matches(s, ch) ==
    IF s # <<>> /\ s[Len(s)] = ch THEN trim_end_matches(SubSeq(s, 1, Len(s) - 1), ch)
    ELSE s

\* str::splitn: at most n pieces, the last one holding the rest
RECURSIVE splitn(_, _, _)
splitn(s, n, ch) ==
    LET i == find(s, <<ch>>, 1)
    IN  IF n = 1 \/ i = 0 THEN <<s>>
        ELSE <<SubSeq(s, 1, i - 1)>> \o splitn(SubSeq(s, i + 1, Len(s)), n - 1, ch)

\* str::parse::<u32>: an optional '+', then one or more decimal digits whose
\* value fits 32 bits; None otherwise (the model's inputs stay below 2^31)
parse_u32(s) ==
    LET digits == <<"0", "1", "2", "3", "4", "5", "6", "7", "8", "9">>
        max == <<"4", "2", "9", "4", "9", "6", "7", "2", "9", "5">>
        digit(c) == CHOOSE d \in 0..9 : digits[d + 1] = c
        t == IF s # <<>> /\ s[1] = "+" THEN Tail(s) ELSE s
        zeros == {i \in 0..Len(t) : \A j \in 1..i : t[j] = "0"}
        z == SubSeq(t, (CHOOSE i \in zeros : \A j \in zeros : j <= i) + 1, Len(t))
        RECURSIVE value(_)
        value(x) == IF x = <<>> THEN 0 ELSE value(SubSeq(x, 1, Len(x) - 1)) * 10 + digit(x[Len(x)])
        greater == \E i \in 1..Len(max) :
                       /\ Len(z) = Len(max)
                       /\ SubSeq(z, 1, i - 1) = SubSeq(max, 1, i - 1)
                       /\ digit(z[i]) > digit(max[i])
    IN  IF t = <<>> \/ \E i \in DOMAIN t : \A d \in DOMAIN digits : t[i] # digits[d]
        THEN None
        ELSE IF Len(z) > Len(max) \/ greater THEN None
        ELSE value(z)

\* percent-decoding of a path element
RECURSIVE decode_path_element(_)
decode_path_element(s) ==
    LET codes == (<<"6", "2">> :> "b") @@ (<<"2", "F">> :> "/") @@ (<<"5", "F">> :> "_")
    IN  IF s = <<>> THEN <<>>
        ELSE IF s[1] = "%" /\ Len(s) >= 3 /\ <<s[2], s[3]>> \in DOMAIN codes
        THEN <<codes[<<s[2], s[3]>>]>> \o decode_path_element(SubSeq(s, 4, Len(s)))
        ELSE <<s[1]>> \o decode_path_element(Tail(s))

\* DavResourceName::parse followed by its conversion into a Collection
DavResourceNames ==
    (<<"c", "a", "l">> :> "Calendar") @@ (<<"c", "a", "r", "d">> :> "AddressBook") @@
    (<<"f", "i", "l", "e">> :> "FileNode") @@ (<<"p", "a", "l">> :> "Principal")

\* the directory lookup of a principal name: alice, bob and carol exist
get_principal_id(name) ==
    LET directory == (<<"a", "l", "i", "c", "e">> :> 0) @@ (<<"b", "o", "b">> :> 1) @@
                     (<<"c", "a", "r", "o", "l">> :> 2)
    IN  IF name \in DOMAIN directory THEN directory[name] ELSE None

\* the access token: alice, whose primary account is 0, with shared access to
\* every collection of account 1 and to the calendars of account 2
AccessToken ==
    [name |-> <<"a", "l", "i", "c", "e">>, primary_id |-> 0,
     access_to |-> (1 :> {"Calendar", "AddressBook", "FileNode"}) @@ (2 :> {"Calendar"})]

has_access(account_id, collection) ==
    \/ account_id = AccessToken.primary_id
    \/ /\ account_id \in DOMAIN AccessToken.access_to
       /\ collection \in AccessToken.access_to[account_id]

UriErr(status) ==
    [ok |-> FALSE, status |-> status, collection |-> "", account_id |-> None, resource |-> <<>>]

\* an UnresolvedUri; account_id None and resource <<>> are Option::None
UriOk(collection, account_id, resource) ==
    [ok |-> TRUE, status |-> 0, collection |-> collection, account_id |-> account_id,
     resource |-> resource]

\* the access check is skipped
validate_uri_NoAccessCheck(input) ==
    LET split == split_once(input, <<"/", "d", "a", "v", "/">>)
    IN
    IF split = <<>> THEN UriErr(404)
    ELSE
    LET uri_parts == SelectSeq(splitn(trim_end_matches(split[2], "/"), 3, "/"),
                               LAMBDA x : x # <<>>)
    IN
    IF uri_parts = <<>> \/ uri_parts[1] \notin DOMAIN DavResourceNames THEN UriErr(404)
    ELSE IF Len(uri_parts) < 2 THEN UriOk(DavResourceNames[uri_parts[1]], None, <<>>)
    ELSE
    LET collection == DavResourceNames[uri_parts[1]]
        account == uri_parts[2]
        account_id ==
            IF account[1] = "_" THEN parse_u32(Tail(account))
            ELSE LET name == decode_path_element(account)
                 IN  IF AccessToken.name = name THEN AccessToken.primary_id
                     ELSE get_principal_id(name)
    IN
    IF account_id = None THEN UriErr(404)
    ELSE UriOk(collection, account_id,
               IF Len(uri_parts) >= 3 THEN <<uri_parts[3]>> ELSE <<>>)

\* lines 51-105: validate_uri
validate_uri(input) ==
    LET split == split_once(input, <<"/", "d", "a", "v", "/">>)
    IN
    IF split = <<>> THEN UriErr(404)
    ELSE
    LET uri_parts == SelectSeq(splitn(trim_end_matches(split[2], "/"), 3, "/"),
                               LAMBDA x : x # <<>>)
    IN
    IF uri_parts = <<>> \/ uri_parts[1] \notin DOMAIN DavResourceNames THEN UriErr(404)
    ELSE IF Len(uri_parts) < 2 THEN UriOk(DavResourceNames[uri_parts[1]], None, <<>>)
    ELSE
    LET collection == DavResourceNames[uri_parts[1]]
        account == uri_parts[2]
        account_id ==
            IF account[1] = "_" THEN parse_u32(Tail(account))
            ELSE LET name == decode_path_element(account)
                 IN  IF AccessToken.name = name THEN AccessToken.primary_id
                     ELSE get_principal_id(name)
    IN
    IF account_id = None THEN UriErr(404)
    ELSE IF collection # "Principal" /\ ~has_access(account_id, collection) THEN UriErr(403)
    ELSE UriOk(collection, account_id,
               IF Len(uri_parts) >= 3 THEN <<uri_parts[3]>> ELSE <<>>)

\* lines 141-151: into_owned_uri
into_owned_uri(unresolved) ==
    IF ~unresolved.ok THEN unresolved
    ELSE IF unresolved.account_id = None THEN UriErr(403)
    ELSE unresolved

\* the request URIs tried, spelled from a head, a collection tag, an account
\* and a resource path: absent parts and their slashes are left out
ValidateUri ==
    /\ uri.pc = "idle"
    /\ \E head \in {<<"/", "d", "a", "v", "/">>, <<"/", "x", "/", "d", "a", "v", "/">>, <<"/", "d", "e", "v", "/">>, <<"/", "d", "a", "v">>, <<"/", "d", "a", "v", "/", "/">>},
          tag \in {<<>>, <<"c", "a", "l">>, <<"c", "a", "r", "d">>, <<"f", "i", "l", "e">>, <<"p", "a", "l">>, <<"x", "y", "z">>},
          account \in {<<>>, <<"a", "l", "i", "c", "e">>, <<"b", "o", "b">>, <<"%", "6", "2", "o", "b">>, <<"c", "a", "r", "o", "l">>, <<"d", "a", "v", "e">>,
                       <<"_", "0">>, <<"_", "1">>, <<"_", "2">>, <<"_", "7">>, <<"_">>, <<"_", "x">>, <<"_", "-", "1">>, <<"_", "+", "1">>, <<"_", "0", "1">>,
                       <<"_", "4", "2", "9", "4", "9", "6", "7", "2", "9", "6">>, <<"_", "9", "9", "9", "9", "9", "9", "9", "9", "9", "9", "9">>},
          resource \in {<<>>, <<"a">>, <<"a", "/", "b">>, <<"a", "/">>} :
          LET input == head \o tag
                         \o (IF account = <<>> THEN <<>> ELSE <<"/">> \o account)
                         \o (IF account = <<>> \/ resource = <<>> THEN <<>>
                             ELSE <<"/">> \o resource)
          IN  uri' = [pc |-> "done", head |-> head, tag |-> tag, account |-> account,
                      resource |-> IF account = <<>> THEN <<>> ELSE resource,
                      input |-> input, result |-> validate_uri(input),
                      owned |-> into_owned_uri(validate_uri(input))]
    /\ UNCHANGED <<files, next_document_id, cm, requests, calendars, pp, cards, get,
                   reported, urn, query, del>>

UriReturn ==
    /\ uri.pc = "done"
    /\ uri' = [pc |-> "idle"]
    /\ UNCHANGED <<files, next_document_id, cm, requests, calendars, pp, cards, get,
                   reported, urn, query, del>>

InitUri ==
    /\ files = InitFiles
    /\ next_document_id = [account_id \in Accounts |-> 4]
    /\ cm = IdleCm
    /\ requests = 0
    /\ calendars = InitCalendars
    /\ pp = IdlePp
    /\ cards = <<>>
    /\ get = <<>>
    /\ reported = <<>>
    /\ uri = [pc |-> "idle"]
    /\ urn = <<>>
    /\ query = <<>>
    /\ del = <<>>

NextUri ==
    \/ ValidateUri
    \/ UriReturn

SpecUri == InitUri /\ [][NextUri]_vars

-----------------------------------------------------------------------------
(* Urn (common/uri.rs).  A u64 id is the sequence of its four 16-bit words, *)
(* most significant first.                                                  *)

U64Zero == <<0, 0, 0, 0>>

\* inner words are written without their leading zeros
lower_hex_Unpadded(id) ==
    LET hex == <<"0", "1", "2", "3", "4", "5", "6", "7", "8", "9", "a", "b", "c", "d", "e", "f">>
        nibbles(w) == <<w \div 4096, (w \div 256) % 16, (w \div 16) % 16, w % 16>>
        strip(n) == LET zeros == {i \in 0..3 : \A j \in 1..i : n[j] = 0}
                    IN  SubSeq(n, (CHOOSE i \in zeros : \A j \in zeros : j <= i) + 1, 4)
        all == strip(nibbles(id[1])) \o strip(nibbles(id[2])) \o strip(nibbles(id[3]))
                   \o strip(nibbles(id[4]))
    IN  [i \in 1..Len(all) |-> hex[all[i] + 1]]

\* {id:x}: the hexadecimal digits of id, lower case, without leading zeros
lower_hex(id) ==
    LET hex == <<"0", "1", "2", "3", "4", "5", "6", "7", "8", "9", "a", "b", "c", "d", "e", "f">>
        nibbles(w) == <<w \div 4096, (w \div 256) % 16, (w \div 16) % 16, w % 16>>
        all == nibbles(id[1]) \o nibbles(id[2]) \o nibbles(id[3]) \o nibbles(id[4])
        zeros == {i \in 0..15 : \A j \in 1..i : all[j] = 0}
        significant == SubSeq(all, (CHOOSE i \in zeros : \A j \in zeros : j <= i) + 1, 16)
    IN  [i \in 1..Len(significant) |-> hex[significant[i] + 1]]

\* lines 199-206: Display for Urn
UrnDisplay(u) ==
    IF u.variant = "Lock" THEN <<"u", "r", "n", ":", "s", "t", "a", "l", "w", "a", "r", "t", ":", "d", "a", "v", "l", "o", "c", "k", ":">> \o lower_hex(u.id)
    ELSE <<"u", "r", "n", ":", "s", "t", "a", "l", "w", "a", "r", "t", ":", "d", "a", "v", "s", "y", "n", "c", ":">> \o lower_hex(u.id)

\* u64::from_str_radix(s, 16): an optional '+', then one or more hexadecimal
\* digits of either case whose value fits 64 bits; <<>> otherwise
from_str_radix(s) ==
    LET lower == <<"0", "1", "2", "3", "4", "5", "6", "7", "8", "9", "a", "b", "c", "d", "e", "f">>
        upper == <<"0", "1", "2", "3", "4", "5", "6", "7", "8", "9", "A", "B", "C", "D", "E", "F">>
        is_digit(c) == \E d \in 1..16 : lower[d] = c \/ upper[d] = c
        digit(c) == (CHOOSE d \in 1..16 : lower[d] = c \/ upper[d] = c) - 1
        t == IF s # <<>> /\ s[1] = "+" THEN Tail(s) ELSE s
        \* acc * 16 + d on four 16-bit words; <<>> once a bit leaves the top word
        push(acc, d) ==
            IF acc = <<>> \/ acc[1] \div 4096 # 0 THEN <<>>
            ELSE <<((acc[1] * 16) % 65536) + (acc[2] \div 4096),
                   ((acc[2] * 16) % 65536) + (acc[3] \div 4096),
                   ((acc[3] * 16) % 65536) + (acc[4] \div 4096),
                   ((acc[4] * 16) % 65536) + d>>
        RECURSIVE value(_)
        value(x) == IF x = <<>> THEN U64Zero
                    ELSE push(value(SubSeq(x, 1, Len(x) - 1)), digit(x[Len(x)]))
    IN  IF t = <<>> \/ \E i \in DOMAIN t : ~is_digit(t[i]) THEN <<>> ELSE value(t)

\* lines 174-182: Urn::parse; variant "None" when the input is no Urn
Urn_parse(input) ==
    LET prefix == <<"u", "r", "n", ":", "s", "t", "a", "l", "w", "a", "r", "t", ":">>
        inbox == SubSeq(input, Len(prefix) + 1, Len(input))
        split == split_once(inbox, <<":">>)
        none == [variant |-> "None", id |-> <<>>]
    IN  IF ~IsPrefix(prefix, input) \/ split = <<>> THEN none
        ELSE LET kind == split[1]
                 id == from_str_radix(split[2])
             IN  IF kind = <<"d", "a", "v", "l", "o", "c", "k">> /\ id # <<>> THEN [variant |-> "Lock", id |-> id]
                 ELSE IF kind = <<"d", "a", "v", "s", "y", "n", "c">> /\ id # <<>> THEN [variant |-> "Sync", id |-> id]
                 ELSE none

\* a Urn is formatted and the text parsed back
FormatUrn ==
    /\ urn.pc = "idle"
    /\ \E variant \in {"Lock", "Sync"}, id \in [1..4 -> {0, 1, 171, 4096, 65535}] :
          LET u == [variant |-> variant, id |-> id]
          IN  urn' = [pc |-> "done", urn |-> u, text |-> UrnDisplay(u),
                      parsed |-> Urn_parse(UrnDisplay(u))]
    /\ UNCHANGED <<files, next_document_id, cm, requests, calendars, pp, cards, get,
                   reported, uri, query, del>>

UrnReturn ==
    /\ urn.pc = "done"
    /\ urn' = [pc |-> "idle"]
    /\ UNCHANGED <<files, next_document_id, cm, requests, calendars, pp, cards, get,
                   reported, uri, query, del>>

InitUrn ==
    /\ files = InitFiles
    /\ next_document_id = [account_id \in Accounts |-> 4]
    /\ cm = IdleCm
    /\ requests = 0
    /\ calendars = InitCalendars
    /\ pp = IdlePp
    /\ cards = <<>>
    /\ get = <<>>
    /\ reported = <<>>
    /\ uri = <<>>
    /\ urn = [pc |-> "idle"]
    /\ query = <<>>
    /\ del = <<>>

NextUrn ==
    \/ FormatUrn
    \/ UrnReturn

SpecUrn == InitUrn /\ [][NextUrn]_vars

-----------------------------------------------------------------------------
(* Vocabulary of the COPY/MOVE properties *)

Front(path) == SubSeq(path, 1, Len(path) - 1)
Last(path) == path[Len(path)]

CmDone == cm.pc = "done"
CmSucceeded == CmDone /\ cm.status \in {201, 204}
CmStoreUnchanged == files = cm.files0

\* the hierarchy is a forest of uniquely named nodes under existing containers
WellFormed(h) ==
    /\ \A d \in DOMAIN h :
          /\ Path(h, d) # <<>>
          /\ h[d].parent_id # 0 =>
                (h[d].parent_id - 1) \in DOMAIN h /\ is_container(h[h[d].parent_id - 1])
    /\ \A d, e \in DOMAIN h : d # e => Path(h, d) # Path(h, e)

RECURSIVE IsUnder(_, _, _, _)
IsUnder(h, d, root, fuel) ==
    IF d = root THEN TRUE
    ELSE IF d \notin DOMAIN h \/ fuel = 0 \/ h[d].parent_id = 0 THEN FALSE
    ELSE IsUnder(h, h[d].parent_id - 1, root, fuel - 1)

\* the source subtree, by parent links, in the store the request started from
SourceSubtree ==
    LET h == cm.files0[cm.from_account_id]
    IN  {d \in DOMAIN h : IsUnder(h, d, cm.from_resource.document_id, Cardinality(DOMAIN h))}

\* the encoded parent the Destination header names
RequestedParentId ==
    LET p == by_name(cm.files0[cm.to_account_id], Front(cm.destination_resource_name))
    IN  IF p = None THEN 0 ELSE p + 1

\* C3: every file COPY/MOVE request applies all of its store writes or none:
\* a request that ends without success (an error status, or a cancellation at a
\* suspension point) leaves the store as it was when the request started.
C3_AllWritesOrNone ==
    (CmDone /\ cm.status \notin {201, 204}) => CmStoreUnchanged

\* C4: a request commits a write only after the destination ACL check and
\* validate_headers have both completed successfully in the same request.
C4_ValidatedBeforeCommit ==
    cm.commits # <<>> => (cm.acl_validated /\ cm.headers_validated)

\* the request was cancelled, or refused by the ACL evaluator (403), by the
\* precondition validator (the 412 of validate_headers) or by the quota check
CmRefusedBefore ==
    \/ cm.status \in {0, 403, 507}
    \/ (cm.status = 412 /\ cm.acl_validated)

\* C5: a same-account MOVE of a container whose destination parent is the
\* container itself or one of its descendants answers 502 and leaves the store
\* unchanged, whatever Overwrite says and whether or not the destination exists
\* (requests cancelled or refused by the ACL evaluator or the precondition
\* validator apart).
C5_MoveIntoDescendantRefused ==
    (/\ CmDone
     /\ ~CmRefusedBefore
     /\ cm.is_move
     /\ cm.from_account_id = cm.to_account_id
     /\ cm.from_resource.is_container
     /\ Len(cm.destination_resource_name) >= 2
     /\ IsPrefix(cm.from_path, Front(cm.destination_resource_name)))
    => (cm.status = 502 /\ CmStoreUnchanged)

\* C6: a COPY or MOVE whose Destination resolves to the source itself answers
\* 502 and changes no state, for both values of Overwrite (requests cancelled
\* or refused by the ACL evaluator, the precondition validator or the quota
\* check apart).
C6_SameResourceRefused ==
    (/\ CmDone
     /\ ~CmRefusedBefore
     /\ cm.from_resource.document_id # None
     /\ cm.from_account_id = cm.to_account_id
     /\ by_name(cm.files0[cm.to_account_id], cm.destination_resource_name)
            = cm.from_resource.document_id)
    => (cm.status = 502 /\ CmStoreUnchanged)

\* the request is a same-account MOVE, to a path that does not exist, under the
\* source's own current parent
RenameCase ==
    /\ cm.is_move
    /\ cm.from_account_id = cm.to_account_id
    /\ cm.from_resource.document_id # None
    /\ cm.destination_resource_name # <<>>
    /\ by_name(cm.files0[cm.to_account_id], cm.destination_resource_name) = None
    /\ Front(cm.destination_resource_name) = Front(cm.from_path)

\* C7: rename_item is taken exactly in the rename case, and it changes only the
\* node's name: its id, its parent_id and every other resource stay as they were.
C7_RenameExactlyInPlace ==
    /\ cm.op = "rename" => RenameCase
    /\ (cm.op # "" /\ RenameCase) => cm.op = "rename"
    /\ (CmDone /\ cm.commits = <<"rename">>) =>
          LET a == cm.from_account_id
              d == cm.from_resource.document_id
          IN  /\ DOMAIN files[a] = DOMAIN cm.files0[a]
              /\ files[a][d] = [cm.files0[a][d] EXCEPT
                                    !.name = Last(cm.destination_resource_name)]
              /\ \A e \in DOMAIN files[a] \ {d} : files[a][e] = cm.files0[a][e]
              /\ \A b \in Accounts \ {a} : files[b] = cm.files0[b]

\* C8: the quota check runs exactly for a COPY or a cross-account MOVE, with
\* space_needed the sum of the sizes of the whole source subtree; a request
\* refused by it answers 507 and has committed nothing, deletion of an existing
\* destination included.
C8_QuotaBeforeAnyWrite ==
    LET required == ~cm.is_move \/ cm.from_account_id # cm.to_account_id
        h == cm.files0[cm.from_account_id]
        whole == {d \in DOMAIN h : Path(h, d) # <<>> /\ IsPrefix(cm.from_path, Path(h, d))}
    IN  /\ cm.quota_checked => required
        /\ (required /\ (cm.commits # <<>> \/ cm.pc \in {"delete", "inner"}))
              => cm.quota_checked
        /\ cm.quota_checked => cm.space_needed = SumSize(h, whole)
        /\ (CmDone /\ cm.status = 507) =>
              (cm.quota_checked /\ cm.commits = <<>> /\ CmStoreUnchanged)

\* a 507 for a request that overwrites an existing destination container with
\* a source subtree holding a payload
C8_Witness ==
    /\ CmDone
    /\ cm.status = 507
    /\ cm.quota_checked
    /\ cm.space_needed > 1
    /\ cm.delete_destination # <<>>
    /\ cm.delete_destination[1].is_container

\* a container COPY with Depth infinity that succeeded, from a well-formed store
CopiedSubtree ==
    /\ CmSucceeded
    /\ ~cm.is_move
    /\ cm.from_resource.is_container
    /\ cm.depth = "Infinity"
    /\ \A a \in Accounts : WellFormed(cm.files0[a])

\* C9: after a successful container COPY with Depth infinity the destination
\* holds exactly one new node per node of the source subtree; source id -> new
\* id is a bijection under which every non-root node's parent is the copy of its
\* source parent, the copied root hangs under the destination parent, non-root
\* nodes keep name and payload, only the root takes the requested name, and the
\* new ids are pairwise distinct.
C9_ContainerCopyIsomorphic ==
    CopiedSubtree =>
        LET src == cm.files0[cm.from_account_id]
            old == cm.files0[cm.to_account_id]
            new == files[cm.to_account_id]
            root == cm.from_resource.document_id
            m == cm.id_map
            created == DOMAIN new \ DOMAIN old
        IN  /\ DOMAIN m = {d + 1 : d \in SourceSubtree}
            /\ \A j, k \in DOMAIN m : j # k => m[j] # m[k]
            /\ created = {m[k] - 1 : k \in DOMAIN m}
            /\ Cardinality(created) = Cardinality(SourceSubtree)
            /\ \A d \in SourceSubtree :
                  LET c == new[m[d + 1] - 1] IN
                  /\ c.file = src[d].file
                  /\ IF d = root
                     THEN /\ c.parent_id = RequestedParentId
                          /\ c.name = Last(cm.destination_resource_name)
                     ELSE /\ c.parent_id = m[src[d].parent_id]
                          /\ c.name = src[d].name

\* a three-node subtree copied across accounts under an existing container
C9_Witness ==
    /\ CopiedSubtree
    /\ Cardinality(SourceSubtree) = 3
    /\ cm.from_account_id # cm.to_account_id
    /\ RequestedParentId # 0

\* C10: after a successful cross-account MOVE, of an item or of a container with
\* any Depth, no resource of the source subtree is left in the source account,
\* and insertions and deletions were committed in one batch.
C10_CrossAccountMoveRemovesSource ==
    (/\ CmSucceeded
     /\ cm.is_move
     /\ cm.from_account_id # cm.to_account_id)
    => /\ \A d \in SourceSubtree : d \notin DOMAIN files[cm.from_account_id]
       /\ Len(SelectSeq(cm.commits, LAMBDA c : c = "write")) = 1

\* the resource at the Destination path when the request started (None: none)
ExistingDestination ==
    IF cm.destination_resource_name = <<>> THEN None
    ELSE by_name(cm.files0[cm.to_account_id], cm.destination_resource_name)

\* a successful COPY/MOVE of an item onto another, existing item, from
\* well-formed stores
ItemOverwritten ==
    /\ CmSucceeded
    /\ cm.op = "engine"
    /\ ~cm.from_resource.is_container
    /\ ExistingDestination # None
    /\ ~is_container(cm.files0[cm.to_account_id][ExistingDestination])
    /\ <<cm.from_account_id, cm.from_resource.document_id>>
          # <<cm.to_account_id, ExistingDestination>>
    /\ \A a \in Accounts : WellFormed(cm.files0[a])

\* C11: an item copied or moved onto an existing item (Overwrite allowed)
\* leaves the destination its document id, parent_id and name and gives it the
\* source's content; a COPY leaves the source as it was, a MOVE deletes the
\* source record in the same batch as the destination update.
C11_OverwriteKeepsDestinationIdentity ==
    ItemOverwritten =>
        LET s == cm.from_resource.document_id
            t == ExistingDestination
            src == cm.files0[cm.from_account_id][s]
            old == cm.files0[cm.to_account_id][t]
        IN  /\ t \in DOMAIN files[cm.to_account_id]
            /\ files[cm.to_account_id][t].parent_id = old.parent_id
            /\ files[cm.to_account_id][t].name = old.name
            /\ files[cm.to_account_id][t].file = src.file
            /\ cm.commits = <<"write">>
            /\ IF cm.is_move
               THEN s \notin DOMAIN files[cm.from_account_id]
               ELSE /\ s \in DOMAIN files[cm.from_account_id]
                    /\ files[cm.from_account_id][s] = src

\* a cross-account MOVE of an item onto an existing item with another name
C11_Witness ==
    /\ ItemOverwritten
    /\ cm.is_move
    /\ cm.from_account_id # cm.to_account_id
    /\ cm.files0[cm.from_account_id][cm.from_resource.document_id].file
          # cm.files0[cm.to_account_id][ExistingDestination].file

\* C12: a successful COPY or MOVE answers 204 when a resource existed at the
\* destination path (item or container, Overwrite allowed), never 201, and
\* answers 201 when none existed.
C12_OverwriteAnswers204 ==
    CmSucceeded => (cm.status = 204 <=> ExistingDestination # None)

\* a container copied over an existing container: the inner operation's 201
\* is answered as 204
C12_Witness ==
    /\ CmSucceeded
    /\ cm.status = 204
    /\ cm.is_overwrite
    /\ cm.from_resource.is_container
    /\ ExistingDestination # None
    /\ is_container(cm.files0[cm.to_account_id][ExistingDestination])

\* the request resolved its source and passed the source ACLs, and carries a
\* Destination
DestinationMapped ==
    /\ CmDone
    /\ cm.from_resource.document_id # None
    /\ cm.destination_resource_name # <<>>
    /\ SourceAclOk(cm.files0[cm.from_account_id], cm.from_account_id, cm.from_path,
                   cm.is_move)

DestinationParentMissing ==
    /\ Len(cm.destination_resource_name) >= 2
    /\ by_name(cm.files0[cm.to_account_id], Front(cm.destination_resource_name)) = None

\* C13: a COPY/MOVE whose destination parent path resolves to no resource
\* answers 409, one whose destination path exists while Overwrite is false
\* answers 412, and neither changes the store.
C13_MissingParent409ExistingDestination412 ==
    DestinationMapped =>
        /\ DestinationParentMissing => (cm.status = 409 /\ CmStoreUnchanged)
        /\ (ExistingDestination # None /\ cm.overwrite_fail)
              => (cm.status = 412 /\ CmStoreUnchanged)

\* a cross-account COPY refused with 409
C13_Witness ==
    /\ DestinationMapped
    /\ DestinationParentMissing
    /\ cm.status = 409
    /\ cm.from_account_id # cm.to_account_id

\* the token holds the right on the node of the account, as a member or by a grant
HoldsRight(account_id, document_id, right) ==
    \/ is_member(account_id)
    \/ right \in cm.files0[account_id][document_id].acls

\* the access checks of a COPY/MOVE as the request names them: the source
\* subtree, the destination parent and the existing destination entry
AccessGranted ==
    LET to == cm.files0[cm.to_account_id]
        parent == IF Len(cm.destination_resource_name) >= 2
                  THEN by_name(to, Front(cm.destination_resource_name))
                  ELSE None
    IN  /\ \A d \in subtree(cm.files0[cm.from_account_id], cm.from_path) :
              /\ HoldsRight(cm.from_account_id, d, "Read")
              /\ cm.is_move => HoldsRight(cm.from_account_id, d, "Modify")
        /\ IF parent = None
           THEN is_member(cm.to_account_id)
           ELSE /\ HoldsRight(cm.to_account_id, parent, "Modify")
                /\ ExistingDestination # None =>
                      HoldsRight(cm.to_account_id, ExistingDestination, "Delete")

\* C14: no COPY/MOVE commits a write unless the access checks passed: Read
\* (COPY) or Read and Modify (MOVE) on every resource of the source subtree
\* for a non-member, Modify on the destination parent container, Delete on an
\* existing destination entry, and membership of the destination account when
\* the destination parent is the account root.
C14_NoWriteWithoutAccess ==
    cm.commits # <<>> => AccessGranted

\* a container COPY that succeeded, from well-formed stores
ContainerCopied ==
    /\ CmSucceeded
    /\ cm.op = "engine"
    /\ ~cm.is_move
    /\ cm.from_resource.is_container
    /\ \A a \in Accounts : WellFormed(cm.files0[a])

\* the nodes the Depth header selects, by parent links, in the store the
\* request started from
SelectedByDepth ==
    LET h == cm.files0[cm.from_account_id]
        root == cm.from_resource.document_id
    IN  CASE cm.depth = "Zero" -> {root}
          [] cm.depth = "One" -> {root} \cup {d \in DOMAIN h : h[d].parent_id = root + 1}
          [] OTHER -> SourceSubtree

\* the records of the destination account that did not exist before the request
CreatedNodes == DOMAIN files[cm.to_account_id] \ DOMAIN cm.files0[cm.to_account_id]

\* C15: a container COPY creates at the destination exactly the nodes Depth
\* selects: the container alone for Depth 0, the container and its immediate
\* children for Depth 1, the whole subtree for Depth infinity; every selected
\* node has its copy and nothing else is created.
C15_CopyCreatesDepthSelection ==
    ContainerCopied =>
        LET src == cm.files0[cm.from_account_id]
            new == files[cm.to_account_id]
            root == cm.from_resource.document_id
        IN  /\ Cardinality(CreatedNodes) = Cardinality(SelectedByDepth)
            /\ \A d \in SelectedByDepth :
                  \E c \in CreatedNodes :
                     /\ new[c].file = src[d].file
                     /\ new[c].name = IF d = root THEN Last(cm.destination_resource_name)
                                                 ELSE src[d].name
                     /\ d = root => new[c].parent_id = RequestedParentId

\* a Depth 1 copy of a container that has grandchildren
C15_Witness ==
    /\ ContainerCopied
    /\ cm.depth = "One"
    /\ Cardinality(SelectedByDepth) = 2
    /\ Cardinality(SourceSubtree) = 3

\* the records h of an account form a forest rooted at parent_id = 0: every
\* parent is an existing container and no node is its own ancestor
Forest(h) ==
    \A d \in DOMAIN h :
        \/ h[d].parent_id = 0
        \/ /\ (h[d].parent_id - 1) \in DOMAIN h
           /\ is_container(h[h[d].parent_id - 1])
           /\ ~IsUnder(h, h[d].parent_id - 1, d, Cardinality(DOMAIN h))

\* C16: successful COPY and MOVE requests keep the FileNode hierarchy of every
\* account a forest (any Depth, any Overwrite, same- or cross-account): a
\* request that starts from forests and succeeds leaves forests.
C16_HierarchyStaysForest ==
    (CmSucceeded /\ \A a \in Accounts : Forest(cm.files0[a]))
        => \A a \in Accounts : Forest(files[a])

-----------------------------------------------------------------------------
(* Vocabulary of the PROPPATCH properties *)

Is2xx(status) == status >= 200 /\ status <= 299

PpRejectedSet ==
    \E i \in DOMAIN pp.items : pp.items[i].op = "set" /\ ~Is2xx(pp.items[i].status)

\* C1: a calendar or event PROPPATCH whose set list holds a rejected item
\* commits no batch, leaves the stored resource unchanged and answers with the
\* etag of the archive read at the start of the request, whatever the other
\* set/remove items did and whatever set_first says.
C1_RejectedSetPersistsNothing ==
    PpRejectedSet =>
        /\ pp.pc # "commit"
        /\ ~pp.committed
        /\ calendars = pp.calendars0
        /\ pp.etag = etag(pp.calendars0[pp.account_id][pp.document_id])

\* a 207 that reports a rejected set item next to an accepted set item and an
\* accepted remove, the removes having run first
C1_Witness ==
    /\ pp.pc = "done"
    /\ pp.status = 207
    /\ ~pp.set_first
    /\ PpRejectedSet
    /\ \E i \in DOMAIN pp.items : pp.items[i].op = "set" /\ pp.items[i].status = 200
    /\ \E i \in DOMAIN pp.items : pp.items[i].op = "remove" /\ pp.items[i].status = 200

\* C2: the calendar PROPPATCH handler commits the mutated resource if and only
\* if every PropStat item it produced, for sets and removes alike, is 2xx.
C2_CommitIffEveryItemOk ==
    (/\ pp.pc = "done"
     /\ pp.status \in {204, 207}
     /\ pp.document_id # None)
    => (pp.committed <=> \A i \in DOMAIN pp.items : Is2xx(pp.items[i].status))

\* the PROPPATCH was committed; PpStored is the record the store holds after it
PpCommitted == pp.pc = "done" /\ pp.committed

PpStored == calendars[pp.account_id][pp.document_id]

\* the request both sets and removes the property
SetsAndRemoves(property) ==
    /\ \E i \in DOMAIN pp.set : pp.set[i].property = property
    /\ \E i \in DOMAIN pp.remove : pp.remove[i] = property

\* the value of the last set item of the property
LastSetValue(property) ==
    LET i == CHOOSE k \in DOMAIN pp.set :
                 /\ pp.set[k].property = property
                 /\ \A j \in DOMAIN pp.set : pp.set[j].property = property => j <= k
    IN  pp.set[i].value

HasDeadProperty(r, dead) ==
    \E i \in DOMAIN r.dead_properties : r.dead_properties[i].name = dead

\* C18: a committed calendar PROPPATCH that both removes and sets one
\* removable property applies the removes first when set_first is false, so
\* the property ends with the set value, and the sets first when set_first is
\* true, so the property ends absent (calendar-description, a dead property,
\* and the timezone id when no other item of the request sets the time zone).
C18_SetFirstDecidesOrder ==
    PpCommitted =>
        /\ (is_calendar(pp.archive) /\ SetsAndRemoves("CalendarDescription")) =>
              PpStored.description =
                  IF pp.set_first THEN <<>>
                  ELSE <<LastSetValue("CalendarDescription").s>>
        /\ (/\ is_calendar(pp.archive)
            /\ SetsAndRemoves("TimezoneId")
            /\ \A i \in DOMAIN pp.set : pp.set[i].property # "CalendarTimezone") =>
              PpStored.time_zone =
                  IF pp.set_first THEN DefaultTimezone
                  ELSE [tz |-> "IANA", id |-> LastSetValue("TimezoneId").s]
        /\ SetsAndRemoves("Dead1") =>
              (HasDeadProperty(PpStored, "Dead1") <=> ~pp.set_first)

\* set_first: a stored calendar-description is set, then removed, and ends absent
C18_Witness ==
    /\ PpCommitted
    /\ is_calendar(pp.archive)
    /\ SetsAndRemoves("CalendarDescription")
    /\ pp.set_first
    /\ PpStored.description = <<>>
    /\ pp.archive.description # <<>>

\* the types a resourcetype may be set to on a calendar
ValidResourceTypes == {"Collection", "Calendar"}

\* the request was answered, and every resourcetype set item of it names
\* valid types only (valid) or some other type (~valid)
SetsResourceType(valid) ==
    /\ pp.pc = "done"
    /\ pp.status \in {204, 207}
    /\ pp.document_id # None
    /\ is_calendar(pp.archive)
    /\ \E i \in DOMAIN pp.set : pp.set[i].property = "ResourceType"
    /\ \A i \in DOMAIN pp.set :
          pp.set[i].property = "ResourceType" =>
              (pp.set[i].value.types \subseteq ValidResourceTypes <=> valid)

ResourceTypeItems ==
    {i \in DOMAIN pp.items : pp.items[i].op = "set" /\ pp.items[i].prop = "ResourceType"}

\* C19: setting resourcetype on a calendar answers a 200 PropStat when every
\* requested type is Collection or Calendar, and a 403 PropStat with the
\* valid-resource-type condition, failing the whole PROPPATCH, when some
\* requested type is anything else.
C19_ResourceTypeAccepted ==
    /\ SetsResourceType(TRUE) =>
          /\ ResourceTypeItems # {}
          /\ \A i \in ResourceTypeItems : pp.items[i].status = 200
    /\ SetsResourceType(FALSE) =>
          /\ ResourceTypeItems # {}
          /\ \A i \in ResourceTypeItems :
                /\ pp.items[i].status = 403
                /\ pp.items[i].error = "valid-resource-type"
          /\ ~pp.committed
          /\ pp.status = 207

\* the properties that write the calendar's time zone
TimezoneProperties == {"CalendarTimezone", "TimezoneId"}

\* an answered PROPPATCH of a calendar
CalendarPatched ==
    /\ pp.pc = "done"
    /\ pp.status \in {204, 207}
    /\ pp.document_id # None
    /\ is_calendar(pp.archive)

SetsEmptyTimezoneId ==
    \E i \in DOMAIN pp.set :
        /\ pp.set[i].property = "TimezoneId"
        /\ pp.set[i].value.type = "String"
        /\ pp.set[i].value.s = <<>>

\* C20: a calendar PROPPATCH that sets calendar-timezone-id to the empty string
\* answers 207 with a 412 PropStat carrying valid-timezone and persists
\* nothing; a committed non-empty value leaves the time zone IANA(value);
\* a committed remove of either timezone property leaves it Default (the
\* last two for requests in which nothing else writes the time zone).
C20_TimezoneId ==
    /\ (CalendarPatched /\ SetsEmptyTimezoneId) =>
          /\ pp.status = 207
          /\ \E i \in DOMAIN pp.items :
                /\ pp.items[i].prop = "TimezoneId"
                /\ pp.items[i].op = "set"
                /\ pp.items[i].status = 412
                /\ pp.items[i].error = "valid-timezone"
          /\ ~pp.committed
          /\ calendars = pp.calendars0
    /\ (/\ CalendarPatched
        /\ pp.committed
        /\ \E i \in DOMAIN pp.set : pp.set[i].property = "TimezoneId"
        /\ \A i \in DOMAIN pp.set : pp.set[i].property # "CalendarTimezone"
        /\ \A i \in DOMAIN pp.remove : pp.remove[i] \notin TimezoneProperties) =>
          PpStored.time_zone = [tz |-> "IANA", id |-> LastSetValue("TimezoneId").s]
    /\ (/\ CalendarPatched
        /\ pp.committed
        /\ \E i \in DOMAIN pp.remove : pp.remove[i] \in TimezoneProperties
        /\ \A i \in DOMAIN pp.set : pp.set[i].property \notin TimezoneProperties) =>
          PpStored.time_zone = DefaultTimezone

\* an empty timezone id next to an accepted set and an accepted remove: 207,
\* the 412 item, and the stored IANA zone of the calendar untouched
C20_Witness ==
    /\ CalendarPatched
    /\ SetsEmptyTimezoneId
    /\ pp.status = 207
    /\ pp.archive.time_zone.tz = "IANA"
    /\ \E i \in DOMAIN pp.items : pp.items[i].op = "remove" /\ pp.items[i].status = 200
    /\ \E i \in DOMAIN pp.items : pp.items[i].op = "set" /\ pp.items[i].status = 200

-----------------------------------------------------------------------------
(* Properties of concurrent PROPPATCH requests *)

\* client i called update and was answered
Attempted(i) == pp[i].pc = "done" /\ pp[i].is_success /\ pp[i].status # 0

\* clients i and j read the same version of the same resource
SameRead(i, j) ==
    /\ pp[i].document_id # None
    /\ pp[i].account_id = pp[j].account_id
    /\ pp[i].document_id = pp[j].document_id
    /\ pp[i].archive.version = pp[j].archive.version

\* the commits that landed on a resource
Committed(account_id, document_id) ==
    {i \in Clients : /\ pp[i].committed
                     /\ pp[i].account_id = account_id
                     /\ pp[i].document_id = document_id}

\* C17: of two requests that read the same archive version of one resource and
\* both attempt update(prev_archive, new_value), at most one commits; the other
\* is answered 412 and persists nothing, so no update is lost: every commit
\* that landed made its own version of the resource.
C17_AtMostOneCommitPerVersion ==
    /\ \A i, j \in Clients :
          (i # j /\ Attempted(i) /\ Attempted(j) /\ SameRead(i, j)) =>
              /\ ~(pp[i].committed /\ pp[j].committed)
              /\ ~pp[i].committed => pp[i].status = 412
              /\ ~pp[j].committed => pp[j].status = 412
    /\ \A account_id \in Accounts :
          \A document_id \in DOMAIN calendars[account_id] :
              calendars[account_id][document_id].version
                  = 1 + Cardinality(Committed(account_id, document_id))

\* two requests read the same version and set different things: one landed
\* and is what the store holds, the other was answered 412
C17_Witness ==
    \E i, j \in Clients :
        /\ i # j /\ Attempted(i) /\ Attempted(j) /\ SameRead(i, j)
        /\ pp[i].new # pp[j].new
        /\ pp[i].committed /\ pp[j].status = 412
        /\ calendars[pp[i].account_id][pp[i].document_id] = pp[i].new

-----------------------------------------------------------------------------
(* Properties of sequences of dead-property PROPPATCH requests *)

\* the first set item of the request, when it sets a dead property
FirstIsDeadSet ==
    /\ pp.set # <<>>
    /\ pp.set[1].value.type = "DeadProperty"

\* the PropStat answering the first set item: the removes come before it
\* when they ran first
FirstSetAnswer ==
    pp.items[IF ~pp.set_first /\ pp.remove # <<>> THEN Len(pp.remove) + 1 ELSE 1]

\* the bag the first set item meets: the stored bag, less the removes that ran
\* before it
BagBeforeFirstSet ==
    LET stored == pp.calendars0[pp.account_id][pp.document_id].dead_properties
    IN  IF pp.set_first THEN stored
        ELSE SelectSeq(stored, LAMBDA e : \A i \in DOMAIN pp.remove : pp.remove[i] # e.name)

\* the size of the bag once the entries named dead are replaced by a new entry
\* of a value of size n
SizeAfterReplacing(bag, dead, n) ==
    bag_size(SelectSeq(bag, LAMBDA e : e.name # dead)) + n + dead_size(dead)

\* C21: the dead-property bag of every stored calendar and event stays
\* strictly below dead_property_size through any sequence of PROPPATCH
\* requests; a dead-property set is answered 200 exactly when the bag, with
\* the entry of the same name replaced by the new one, is below the limit, and
\* is answered 507 otherwise, and a request holding a 507 persists nothing.
C21_DeadBagBelowLimit ==
    /\ \A account_id \in Accounts : \A d \in DOMAIN calendars[account_id] :
           bag_size(calendars[account_id][d].dead_properties) < DeadPropertySize
    /\ (pp.pc \in {"commit", "done"} /\ pp.document_id # None /\ FirstIsDeadSet) =>
           LET fits == SizeAfterReplacing(BagBeforeFirstSet, pp.set[1].property,
                                          pp.set[1].value.size) < DeadPropertySize
           IN  /\ FirstSetAnswer.prop = pp.set[1].property
               /\ FirstSetAnswer.status = IF fits THEN 200 ELSE 507
    /\ (\E i \in DOMAIN pp.items : pp.items[i].status = 507) =>
           /\ pp.pc # "commit"
           /\ ~pp.committed
           /\ calendars = pp.calendars0

\* a request that finds a bag of two entries, sets one of them again with a
\* larger value and is answered 507, although the new entry alone would fit
C21_Witness ==
    /\ pp.pc = "done"
    /\ pp.document_id # None
    /\ FirstIsDeadSet
    /\ Len(pp.calendars0[pp.account_id][pp.document_id].dead_properties) = 2
    /\ Len(BagBeforeFirstSet) = 2
    /\ FirstSetAnswer.status = 507
    /\ pp.set[1].value.size + dead_size(pp.set[1].property) < DeadPropertySize
    /\ calendars = pp.calendars0
-----------------------------------------------------------------------------
(* Properties of the PROPPATCH response *)

\* the request reached the property phases: it named a stored resource, had
\* changes, passed the ACL and header checks and was answered
PpAnswered ==
    /\ pp.pc = "done"
    /\ pp.status \in {204, 207}
    /\ pp.document_id # None

PpFailedItem == \E i \in DOMAIN pp.items : ~Is2xx(pp.items[i].status)

\* C22: a calendar PROPPATCH with changes answers 204 in place of the 207
\* multi-status only when Prefer: return=minimal was sent, every property
\* succeeded and the batch was committed; a request with a failed property is
\* answered 207, with return=minimal too.
C22_MinimalOnlyOnFullSuccess ==
    PpAnswered =>
        /\ pp.status = 204 => (pp.ret = "Minimal" /\ ~PpFailedItem /\ pp.committed)
        /\ PpFailedItem => pp.status = 207
-----------------------------------------------------------------------------
(* Properties of the ETags of responses *)

PpKey == <<"Calendar", pp.account_id, pp.document_id>>
GetKey == <<"Card", get.account_id, get.document_id>>

\* the PROPPATCH read its archive
PpRead == pp.pc \in {"commit", "done"} /\ pp.document_id # None

-----------------------------------------------------------------------------
(* Properties of the URI resolver *)

ContainsDav(input) ==
    \E i \in 1..(Len(input) - 4) : SubSeq(input, i, i + 4) = <<"/", "d", "a", "v", "/">>

\* the URI is /dav/ followed by its non-empty parts, one slash between them
WellSegmented == uri.head \in {<<"/", "d", "a", "v", "/">>, <<"/", "x", "/", "d", "a", "v", "/">>} /\ uri.tag # <<>>

\* the account each account segment stands for: the '_' ids that are u32
\* numbers and the names of the directory, percent-decoded
AccountOf ==
    (<<"a", "l", "i", "c", "e">> :> 0) @@ (<<"b", "o", "b">> :> 1) @@ (<<"%", "6", "2", "o", "b">> :> 1) @@ (<<"c", "a", "r", "o", "l">> :> 2) @@ (<<"_", "0">> :> 0) @@
    (<<"_", "1">> :> 1) @@ (<<"_", "2">> :> 2) @@ (<<"_", "7">> :> 7) @@ (<<"_", "+", "1">> :> 1) @@ (<<"_", "0", "1">> :> 1)

UriFails(status) == ~uri.result.ok /\ uri.result.status = status

\* C24: validate_uri fails with 404 when the URI has no /dav/ segment, when
\* the collection tag is unknown, when a '_' account is not a u32 and when
\* the account name is not in the directory; it fails with 403 when the
\* account is resolved, the collection is not Principal and the token lacks
\* access to (account, collection), and otherwise returns the account; it
\* never returns an account of a collection other than Principal that the
\* token has no access to; into_owned_uri answers 403 without an account.
C24_ValidateUriErrors ==
    uri.pc = "done" =>
        /\ ~ContainsDav(uri.input) => UriFails(404)
        /\ (WellSegmented /\ uri.tag \notin DOMAIN DavResourceNames) => UriFails(404)
        /\ (/\ WellSegmented
            /\ uri.tag \in DOMAIN DavResourceNames
            /\ uri.account # <<>>
            /\ uri.account \notin DOMAIN AccountOf) => UriFails(404)
        /\ (/\ WellSegmented
            /\ uri.tag \in DOMAIN DavResourceNames
            /\ uri.account \in DOMAIN AccountOf) =>
               LET collection == DavResourceNames[uri.tag]
                   account_id == AccountOf[uri.account]
               IN  IF collection # "Principal" /\ ~has_access(account_id, collection)
                   THEN UriFails(403)
                   ELSE /\ uri.result.ok
                        /\ uri.result.collection = collection
                        /\ uri.result.account_id = account_id
        /\ (/\ uri.result.ok
            /\ uri.result.account_id # None
            /\ uri.result.collection # "Principal") =>
               has_access(uri.result.account_id, uri.result.collection)
        /\ (uri.result.ok /\ uri.result.account_id = None) =>
               (~uri.owned.ok /\ uri.owned.status = 403)

\* /dav/card/carol/a is refused with 403: carol is in the directory and
\* shares her calendars only
C24_Witness ==
    /\ uri.pc = "done"
    /\ uri.input = <<"/", "d", "a", "v", "/", "c", "a", "r", "d", "/", "c", "a", "r", "o", "l", "/", "a">>
    /\ UriFails(403)
-----------------------------------------------------------------------------
(* Properties of Urn *)

UrnPrefix == IF urn.urn.variant = "Lock" THEN <<"u", "r", "n", ":", "s", "t", "a", "l", "w", "a", "r", "t", ":", "d", "a", "v", "l", "o", "c", "k", ":">>
             ELSE <<"u", "r", "n", ":", "s", "t", "a", "l", "w", "a", "r", "t", ":", "d", "a", "v", "s", "y", "n", "c", ":">>

\* the text after the prefix, when the text starts with the prefix
UrnDigits == SubSeq(urn.text, Len(UrnPrefix) + 1, Len(urn.text))

LowerHexDigits ==
    {"0", "1", "2", "3", "4", "5", "6", "7", "8", "9", "a", "b", "c", "d", "e", "f"}

UrnRoundTrip ==
    /\ IsPrefix(UrnPrefix, urn.text)
    /\ \A i \in DOMAIN UrnDigits : UrnDigits[i] \in LowerHexDigits
    /\ urn.parsed = urn.urn

\* C25 as stated: every Lock and Sync id is formatted as its prefix followed
\* by exactly 16 hexadecimal digits, and parsing the text returns the same
\* variant with the same id.
C25_SixteenHexDigits ==
    urn.pc = "done" => (UrnRoundTrip /\ Len(UrnDigits) = 16)

\* C25 amended: the prefix is followed by the 1 to 16 hexadecimal digits of
\* the id, without leading zeros (16 digits exactly when the id is 2^60 or
\* more), and parsing the text returns the same variant with the same id.
C25_HexDigitsRoundTrip ==
    urn.pc = "done" =>
        /\ UrnRoundTrip
        /\ Len(UrnDigits) >= 1
        /\ Len(UrnDigits) <= 16
        /\ (Len(UrnDigits) > 1 => UrnDigits[1] # "0")
        /\ (Len(UrnDigits) = 16 <=> urn.urn.id[1] >= 4096)

\* a sync id with zero words inside it, written in 9 digits
C25_Witness ==
    /\ urn.pc = "done"
    /\ urn.urn = [variant |-> "Sync", id |-> <<0, 1, 0, 171>>]
    /\ urn.text = <<"u", "r", "n", ":", "s", "t", "a", "l", "w", "a", "r", "t", ":", "d", "a", "v", "s", "y", "n", "c", ":", "1", "0", "0", "0", "0", "0", "0", "a", "b">>
    /\ urn.parsed = urn.urn

-----------------------------------------------------------------------------
(* REPORT calendar-query (calendar/query.rs).                              *)
(*                                                                         *)
(* Times are counted in units of twelve hours from 2025-01-01T00:00:00Z,   *)
(* so that 2025-02-01T00:00:00Z is 62 and 2025-01-15T12:00:00Z is 29.      *)
(* A filter list is the flattened CalendarFilter of the request: the       *)
(* markers AnyOf and AllOf and the Component, Property and Parameter       *)
(* predicates, each with one FilterOp.                                     *)

MaxFilters == 3             \* longest filter list of a calendar-query

Exists == [op |-> "Exists", text |-> "", negate |-> FALSE, start |-> 0, end |-> 0]
Undefined == [Exists EXCEPT !.op = "Undefined"]
TextMatch(text, negate) == [Exists EXCEPT !.op = "TextMatch", !.text = text, !.negate = negate]
TimeRange(start, end) == [Exists EXCEPT !.op = "TimeRange", !.start = start, !.end = end]

AnyOf == [type |-> "AnyOf", comp |-> <<>>, prop |-> "", param |-> "", op |-> Exists]
AllOf == [AnyOf EXCEPT !.type = "AllOf"]
Component(comp, op) == [AnyOf EXCEPT !.type = "Component", !.comp = comp, !.op = op]
Property(comp, prop, op) == [Component(comp, op) EXCEPT !.type = "Property", !.prop = prop]
Parameter(comp, prop, param, op) == [Property(comp, prop, op) EXCEPT !.type = "Parameter", !.param = param]

\* the time range of a TimeRange op
date_range(op) == [start |-> op.start, end |-> op.end]

\* i64::MAX and i64::MIN, beyond every time of the model
I64Max == 1000000
I64Min == 0 - 1000000

\* the hull of the TimeRange ops of the predicates of a filter list, None
\* when the start of the hull is still i64::MAX
extract_filter_range(filters) ==
    LET RECURSIVE Fold(_, _)
        Fold(i, range) ==
            IF i > Len(filters) THEN range
            ELSE LET filter == filters[i]
                 IN  IF /\ filter.type \in {"Component", "Property", "Parameter"}
                        /\ filter.op.op = "TimeRange"
                     THEN Fold(i + 1,
                               [start |-> IF filter.op.start < range.start
                                          THEN filter.op.start ELSE range.start,
                                end |-> IF filter.op.end > range.end
                                        THEN filter.op.end ELSE range.end])
                     ELSE Fold(i + 1, range)
        range == Fold(1, [start |-> I64Max, end |-> I64Min])
    IN  IF range.start # I64Max THEN range ELSE <<>>

\* a resource is kept when the start or the end of its stored time range is
\* inside the closed range; a resource without a stored time range is not
is_resource_in_time_range_Always(resource, range) == TRUE

is_resource_in_time_range(resource, range) ==
    IF resource.event_time_range # <<>>
    THEN LET start == resource.event_time_range[1]
             end == resource.event_time_range[2]
         IN  \/ (range.start <= start /\ start <= range.end)
             \/ (range.start <= end /\ end <= range.end)
    ELSE FALSE

\* the hull of the filter range and of the expand, limit-recurrence and
\* limit-freebusy ranges of the first calendar-data property requested;
\* the filter range itself when calendar-data is not requested
extract_data_range(properties, filter_range) ==
    LET datas == SelectSeq(properties, LAMBDA prop : prop.type = "CalendarData")
    IN  IF datas = <<>> THEN filter_range
        ELSE LET data == Head(datas)
                 ranges == SelectSeq(<<data.expand, data.limit_recurrence, data.limit_freebusy>>,
                                     LAMBDA r : r # <<>>)
                 first == IF filter_range # <<>> THEN filter_range
                          ELSE [start |-> I64Max, end |-> I64Min]
                 RECURSIVE Fold(_, _)
                 Fold(i, range) ==
                     IF i > Len(ranges) THEN range
                     ELSE Fold(i + 1,
                               [start |-> IF ranges[i].start < range.start
                                          THEN ranges[i].start ELSE range.start,
                                end |-> IF ranges[i].end > range.end
                                        THEN ranges[i].end ELSE range.end])
                 range == Fold(1, first)
             IN  IF range.start # I64Max THEN range ELSE <<>>

(* iCalendar data: a component has a type, entries and the ids of its      *)
(* children; an entry has a name, parameters and values.  Component 0 is   *)
(* the VCALENDAR.                                                          *)
Text(text) == [type |-> "Text", text |-> text]
PartialDateTime(ts) == [type |-> "PartialDateTime", ts |-> ts]
RecurrenceRule(interval, count) == [type |-> "RecurrenceRule", interval |-> interval, count |-> count]
Entry(name, params, values) == [name |-> name, params |-> params, values |-> values]
ICalendarComponent(component_type, entries, component_ids) ==
    [component_type |-> component_type, entries |-> entries, component_ids |-> component_ids]

\* the components selected by a component path: those of the last type of
\* the path, every component when that type is VCALENDAR or the path is empty
find_components(ical, comp) ==
    LET last == IF comp = <<>> THEN "VCALENDAR" ELSE comp[Len(comp)]
    IN  SelectSeq([i \in DOMAIN ical.components |->
                      [id |-> i - 1, component |-> ical.components[i]]],
                  LAMBDA c : last = "VCALENDAR" \/ c.component.component_type = last)

\* the first entry of a component with the name, <<>> when there is none
find_property(comp, prop) ==
    LET found == SelectSeq(comp.entries, LAMBDA entry : entry.name = prop)
    IN  IF found = <<>> THEN <<>> ELSE Head(found)

\* the first parameter of an entry with the name, <<>> when there is none
find_parameter(entry, name) ==
    LET found == SelectSeq(entry.params, LAMBDA param : param.name = name)
    IN  IF found = <<>> THEN <<>> ELSE Head(found)

has_time_ranges(component_type) == component_type \in {"VEVENT", "VTODO", "VFREEBUSY"}

is_recurrent(component) == find_property(component, "RRULE") # <<>>

is_recurrence_override(component) == find_property(component, "RECURRENCE-ID") # <<>>

\* RFC 4791 9.9 for a VEVENT: start < DTEND and end > DTSTART, or for an
\* instant start <= DTSTART and end > DTSTART
is_in_range(range, is_todo, start, end) ==
    IF start = end THEN range.start <= start /\ range.end > start
    ELSE range.start < end /\ range.end > start

to_lowercase(text) ==
    CASE text = "Lunch" -> "lunch"
      [] text = "SYNC" -> "sync"
      [] text = "Europe" -> "europe"
      [] OTHER -> text

matches(text_match, text) == (text = text_match.text) # text_match.negate

\* the instances of the components of an event inside a range: a component
\* with DTSTART has the instances DTSTART + k * interval of its rule (one
\* instance without a rule), each as long as DTSTART to DTEND, but for the
\* instances replaced by a RECURRENCE-ID of another component
expand(ical, range) ==
    LET ts(component, name) == find_property(component, name).values[1].ts
        Instances(id) ==
            LET component == ical.components[id + 1]
                start == ts(component, "DTSTART")
                length == IF find_property(component, "DTEND") # <<>>
                          THEN ts(component, "DTEND") - start ELSE 0
                rule == IF is_recurrent(component)
                        THEN find_property(component, "RRULE").values[1]
                        ELSE RecurrenceRule(1, 1)
                replaced == {ts(ical.components[j], "RECURRENCE-ID") :
                                j \in {j \in DOMAIN ical.components :
                                          /\ j # id + 1
                                          /\ is_recurrence_override(ical.components[j])}}
            IN  IF ~has_time_ranges(component.component_type) \/ find_property(component, "DTSTART") = <<>>
                THEN <<>>
                ELSE SelectSeq([k \in 1..rule.count |->
                                   [comp_id |-> id,
                                    start |-> start + (k - 1) * rule.interval,
                                    end |-> start + (k - 1) * rule.interval + length]],
                               LAMBDA e : /\ is_in_range(range, FALSE, e.start, e.end)
                                          /\ (is_recurrent(component) => e.start \notin replaced))
        RECURSIVE All(_)
        All(id) == IF id >= Len(ical.components) THEN <<>>
                   ELSE Instances(id) \o All(id + 1)
    IN  All(0)

\* a handler starts without filtered components and with the instances of
\* the event inside the widest range of the request, if there is one
CalendarQueryHandler(event, max_time_range) ==
    [filtered_components |-> {},
     expanded_times |-> IF max_time_range # <<>>
                        THEN expand(event.data, max_time_range) ELSE <<>>]

\* lines 293-294: RFC4791#9.9, start <= DTSTART AND end > DTSTART
timestamp_in_range_Closed(range, timestamp) ==
    range.start <= timestamp /\ range.end >= timestamp

timestamp_in_range(range, timestamp) ==
    range.start <= timestamp /\ range.end > timestamp

\* CalendarQueryHandler::filter: the answer for the event and the filtered
\* components the handler is left with
filter(handler, event, filters) ==
    LET ical == event.data
        \* the result of the last component looked at, or of the first one
        \* whose result is true
        Scan(comps, Found(_), Result(_)) ==
            LET RECURSIVE Loop(_, _)
                Loop(i, result) ==
                    IF i > Len(comps) THEN result
                    ELSE LET entry == Found(comps[i].component)
                         IN  IF entry = <<>> THEN Loop(i + 1, result)
                             ELSE IF Result(entry) THEN TRUE
                             ELSE Loop(i + 1, FALSE)
            IN  Loop(1, FALSE)
        PropertyResult(op, entry) ==
            CASE op.op = "Exists" -> TRUE
              [] op.op = "Undefined" -> FALSE
              [] op.op = "TextMatch" ->
                    \E i \in DOMAIN entry.values :
                        /\ entry.values[i].type = "Text"
                        /\ matches(op, to_lowercase(entry.values[i].text))
              [] op.op = "TimeRange" ->
                    /\ entry.values # <<>>
                    /\ entry.values[1].type = "PartialDateTime"
                    /\ timestamp_in_range(date_range(op), entry.values[1].ts)
        ParameterResult(op, param) ==
            CASE op.op = "Exists" -> TRUE
              [] op.op = "Undefined" -> FALSE
              [] op.op = "TextMatch" -> matches(op, to_lowercase(param.value))
              [] op.op = "TimeRange" -> FALSE
        RECURSIVE Loop(_, _, _, _)
        Loop(i, is_all, matches_one, filtered_components) ==
            IF i > Len(filters)
            THEN [result |-> is_all \/ matches_one, filtered_components |-> filtered_components]
            ELSE
            LET f == filters[i]
                comps == find_components(ical, f.comp)
                Step(result, counts, filtered) ==
                    IF counts THEN Loop(i + 1, is_all, TRUE, filtered)
                    ELSE IF is_all THEN [result |-> FALSE, filtered_components |-> filtered]
                    ELSE Loop(i + 1, is_all, matches_one, filtered)
            IN  CASE f.type = "AnyOf" -> Loop(i + 1, FALSE, matches_one, filtered_components)
                  [] f.type = "AllOf" -> Loop(i + 1, TRUE, matches_one, filtered_components)
                  [] f.type = "Property" ->
                        LET result == Scan(comps, LAMBDA c : find_property(c, f.prop),
                                           LAMBDA entry : PropertyResult(f.op, entry))
                        IN  Step(result, result \/ f.op.op = "Undefined", filtered_components)
                  [] f.type = "Parameter" ->
                        LET result == Scan(comps,
                                           LAMBDA c : IF find_property(c, f.prop) = <<>> THEN <<>>
                                                      ELSE find_parameter(find_property(c, f.prop), f.param),
                                           LAMBDA param : ParameterResult(f.op, param))
                        IN  Step(result, result \/ f.op.op = "Undefined", filtered_components)
                  [] f.type = "Component" ->
                        CASE f.op.op = "Exists" -> Step(comps # <<>>, comps # <<>>, filtered_components)
                          [] f.op.op = "Undefined" -> Step(comps = <<>>, comps = <<>>, filtered_components)
                          [] f.op.op = "TextMatch" -> Step(FALSE, FALSE, filtered_components)
                          [] f.op.op = "TimeRange" ->
                                IF comps # <<>>
                                THEN LET matching == {e \in {handler.expanded_times[k] : k \in DOMAIN handler.expanded_times} :
                                                         \E k \in DOMAIN comps :
                                                            /\ comps[k].id = e.comp_id
                                                            /\ is_in_range(date_range(f.op),
                                                                           comps[k].component.component_type = "VTODO",
                                                                           e.start, e.end)}
                                         found == {e.comp_id : e \in matching}
                                         filtered == IF filtered_components = {} THEN found
                                                     ELSE filtered_components \cap found
                                     IN  Step(filtered # {}, filtered # {}, filtered)
                                ELSE Step(FALSE, FALSE, filtered_components)
    IN  Loop(1, TRUE, FALSE, handler.filtered_components)

\* the instances in the order of their starts
sort_unstable_by_start(times) ==
    LET RECURSIVE Sort(_)
        Sort(s) ==
            IF s = <<>> THEN <<>>
            ELSE LET i == CHOOSE i \in DOMAIN s :
                              /\ \A j \in DOMAIN s : s[i].start <= s[j].start
                              /\ \A j \in 1..(i - 1) : s[j].start # s[i].start
                 IN  <<s[i]>> \o Sort(SubSeq(s, 1, i - 1) \o SubSeq(s, i + 1, Len(s)))
    IN  Sort(times)

\* an expanded block is written for the instances of the component that are
\* inside the expand range
is_expanded_instance_AnyComponent(expand_range, component_id, is_todo, e) ==
    is_in_range(expand_range, is_todo, e.start, e.end)

is_expanded_instance(expand_range, component_id, is_todo, e) ==
    /\ e.comp_id = component_id
    /\ is_in_range(expand_range, is_todo, e.start, e.end)

\* lines 587-592: the children of a component are looked at when the turn
\* of the component got past every `continue` and the component has children
descends_AlsoSkipped(open, component) == component.component_ids # <<>>

descends(open, component) == open /\ component.component_ids # <<>>

\* CalendarQueryHandler::serialize_ical: the lines written for an event.  A
\* line is BEGIN or END with the component name, or the name of an entry
\* with whether its value is written, followed by the time for the DTSTART,
\* RECURRENCE-ID and DTEND synthesized for an expanded block.
serialize_ical(handler, event, data) ==
    LET expanded_times == IF data.expand # <<>>
                          THEN sort_unstable_by_start(handler.expanded_times)
                          ELSE handler.expanded_times
        times == {expanded_times[k] : k \in DOMAIN expanded_times}
        \* one turn of the loop for a component: the lines written before
        \* its children are looked at, and whether the turn got past every
        \* `continue`, that is wrote the BEGIN of a block still to be closed
        Visit(component_id) ==
            LET component == event.data.components[component_id + 1]
                component_name == component.component_type
                is_todo == component_name = "VTODO"
                Selected(entry) ==
                    SelectSeq(data.properties,
                              LAMBDA prop : /\ prop.component \in {"", component_name}
                                            /\ prop.name \in {"", entry.name})
                entries ==
                    [k \in DOMAIN SelectSeq(component.entries,
                                            LAMBDA entry : \/ data.properties = <<>>
                                                           \/ component_name = "VCALENDAR"
                                                           \/ Selected(entry) # <<>>) |->
                        LET entry == SelectSeq(component.entries,
                                               LAMBDA e : \/ data.properties = <<>>
                                                          \/ component_name = "VCALENDAR"
                                                          \/ Selected(e) # <<>>)[k]
                        IN  [entry |-> entry,
                             with_value |-> \/ data.properties = <<>>
                                            \/ component_name = "VCALENDAR"
                                            \/ ~Head(Selected(entry)).no_value]]
                Lines(es) == [k \in DOMAIN es |-> <<es[k].entry.name, es[k].with_value>>]
                expand_entries ==
                    SelectSeq(entries,
                              LAMBDA e :
                                  CASE e.entry.name \in {"DTSTART", "DTEND", "EXDATE", "EXRULE",
                                                         "RDATE", "RRULE", "RECURRENCE-ID"} -> FALSE
                                    [] e.entry.name \in {"DUE", "COMPLETED", "CREATED"} ->
                                          is_recurrent(component)
                                    [] OTHER -> TRUE)
                has_duration == \E k \in DOMAIN entries : entries[k].entry.name = "DURATION"
                Block(e) ==
                    <<(<<"BEGIN", component_name>>), (<<"DTSTART", TRUE, e.start>>)>>
                    \o (IF is_recurrence_override(component)
                        THEN <<(<<"RECURRENCE-ID", TRUE, e.start>>)>> ELSE <<>>)
                    \o (IF ~has_duration THEN <<(<<"DTEND", TRUE, e.end>>)>> ELSE <<>>)
                    \o Lines(expand_entries)
                    \o <<(<<"END", component_name>>)>>
                RECURSIVE Blocks(_)
                Blocks(k) ==
                    IF k > Len(expanded_times) THEN <<>>
                    ELSE (IF is_expanded_instance(data.expand, component_id, is_todo,
                                                 expanded_times[k])
                          THEN Block(expanded_times[k]) ELSE <<>>)
                         \o Blocks(k + 1)
                freebusy_entries ==
                    SelectSeq(entries,
                              LAMBDA e : e.entry.name = "FREEBUSY" =>
                                             \E v \in DOMAIN e.entry.values :
                                                 is_in_range(data.limit_freebusy, FALSE,
                                                             e.entry.values[v].start,
                                                             e.entry.values[v].end))
                skipped ==
                    \/ /\ handler.filtered_components # {}
                       /\ has_time_ranges(component_name)
                       /\ component_id \notin handler.filtered_components
                    \/ /\ data.limit_recurrence # <<>>
                       /\ is_recurrence_override(component)
                       /\ ~\E e \in times :
                              /\ e.comp_id = component_id
                              /\ is_in_range(data.limit_recurrence, is_todo, e.start, e.end)
                    \/ /\ data.limit_freebusy # <<>>
                       /\ component_name = "VFREEBUSY"
                       /\ ~\E e \in times :
                              /\ e.comp_id = component_id
                              /\ is_in_range(data.limit_freebusy, FALSE, e.start, e.end)
            IN  IF skipped THEN [open |-> FALSE, lines |-> <<>>]
                ELSE IF /\ data.expand # <<>>
                        /\ (is_recurrent(component) \/ is_recurrence_override(component))
                THEN [open |-> FALSE, lines |-> Blocks(1)]
                ELSE IF entries = <<>> THEN [open |-> FALSE, lines |-> <<>>]
                ELSE [open |-> TRUE,
                      lines |-> <<(<<"BEGIN", component_name>>)>>
                                \o (IF data.limit_freebusy = <<>> \/ component_name # "VFREEBUSY"
                                    THEN Lines(entries) ELSE Lines(freebusy_entries))]
        End(component_id) == <<"END", event.data.components[component_id + 1].component_type>>
        \* the loop over the iterator of the current component and the stack
        \* of the components whose children are being written
        RECURSIVE Loop(_, _, _)
        Loop(component_iter, component_stack, out) ==
            IF component_iter # <<>>
            THEN LET component_id == Head(component_iter)
                     component == event.data.components[component_id + 1]
                     visit == Visit(component_id)
                 IN  IF descends(visit.open, component)
                     THEN Loop(component.component_ids,
                               Append(component_stack,
                                      [component |-> component_id, iter |-> Tail(component_iter)]),
                               out \o visit.lines)
                     ELSE Loop(Tail(component_iter), component_stack,
                               out \o visit.lines
                                   \o (IF visit.open THEN <<End(component_id)>> ELSE <<>>))
            ELSE IF component_stack # <<>>
            THEN LET top == component_stack[Len(component_stack)]
                 IN  Loop(top.iter, SubSeq(component_stack, 1, Len(component_stack) - 1),
                          Append(out, End(top.component)))
            ELSE out
    IN  Loop(<<0>>, <<>>, <<>>)

children(h, document_id) == {d \in DOMAIN h : h[d].parent_id = document_id + 1}

\* an event resource: its stored time range (<<>> when it has none) and
\* its iCalendar data
EventResource(name, event_time_range, components) ==
    [c \in {"event_time_range", "data"} |->
        IF c = "data" THEN [components |-> components] ELSE event_time_range]
    @@ CalendarEvent(1, name)

VCalendar(component_ids) ==
    ICalendarComponent("VCALENDAR", <<Entry("VERSION", <<>>, <<Text("2.0")>>)>>, component_ids)

(* The calendar work/ of account 0 holds                                   *)
(*   jan     10..12, summary Lunch, DTSTART with a TZID, and an alarm      *)
(*   weekly  at 29 (2025-01-15T12:00Z), every 14 (a week), 10 times        *)
(*   moved   5..6 every 14, 3 times, the instance at 19 moved to 21..22    *)
(*   long    -20..100                                                      *)
(*   todo    a VTODO without times and without a stored time range         *)
(*   march   130..131                                                      *)
(* and account 1 shares a calendar team/ with one event.                   *)
InitQueryCalendars ==
    LET at(name, ts) == Entry(name, <<>>, <<PartialDateTime(ts)>>)
        summary(text) == Entry("SUMMARY", <<>>, <<Text(text)>>)
        work ==
            (0 :> Calendar("work", Str(1), <<Str(1)>>, {})) @@
            (1 :> EventResource("jan", <<10, 12>>,
                    <<VCalendar(<<1>>),
                      ICalendarComponent("VEVENT",
                          <<Entry("DTSTART", <<[name |-> "TZID", value |-> "Europe"]>>,
                                  <<PartialDateTime(10)>>),
                            at("DTEND", 12), summary("Lunch")>>, <<2>>),
                      ICalendarComponent("VALARM", <<Entry("ACTION", <<>>, <<Text("DISPLAY")>>)>>, <<>>)>>)) @@
            (2 :> EventResource("weekly", <<29, 155>>,
                    <<VCalendar(<<1>>),
                      ICalendarComponent("VEVENT",
                          <<at("DTSTART", 29),
                            Entry("RRULE", <<>>, <<RecurrenceRule(14, 10)>>),
                            summary("SYNC")>>, <<>>)>>)) @@
            (3 :> EventResource("moved", <<5, 34>>,
                    <<VCalendar(<<1, 2>>),
                      ICalendarComponent("VEVENT",
                          <<at("DTSTART", 5), at("DTEND", 6),
                            Entry("RRULE", <<>>, <<RecurrenceRule(14, 3)>>),
                            summary("walk")>>, <<>>),
                      ICalendarComponent("VEVENT",
                          <<at("RECURRENCE-ID", 19), at("DTSTART", 21), at("DTEND", 22),
                            summary("run")>>, <<>>)>>)) @@
            (4 :> EventResource("long", <<0 - 20, 100>>,
                    <<VCalendar(<<1>>),
                      ICalendarComponent("VEVENT",
                          <<at("DTSTART", 0 - 20), at("DTEND", 100)>>, <<>>)>>)) @@
            (5 :> EventResource("todo", <<>>,
                    <<VCalendar(<<1>>),
                      ICalendarComponent("VTODO", <<summary("buy")>>, <<>>)>>)) @@
            (6 :> EventResource("march", <<130, 131>>,
                    <<VCalendar(<<1>>),
                      ICalendarComponent("VEVENT",
                          <<at("DTSTART", 130), at("DTEND", 131), summary("Lunch")>>, <<>>)>>))
        team ==
            (0 :> Calendar("team", Str(1), <<Str(1)>>, {"ReadItems"})) @@
            (1 :> EventResource("jan", <<10, 12>>,
                    <<VCalendar(<<1>>),
                      ICalendarComponent("VEVENT",
                          <<at("DTSTART", 10), at("DTEND", 12)>>, <<>>)>>))
    IN  [account_id \in Accounts |-> IF account_id = 0 THEN work ELSE team]

IdleQuery ==
    [pc |-> "idle", account_id |-> None, path |-> <<>>, filters |-> <<>>,
     properties |-> <<>>, status |-> 0, filter_range |-> <<>>,
     max_time_range |-> <<>>, items |-> <<>>, responses |-> <<>>]

\* handle_calendar_query_request up to the hand-off to the query stage: the
\* status of an early return, or the items of the container that pass the
\* sharing test and the pre-filter, in the order of their ids
CalendarQueryRequest(account_id, path, filters, properties) ==
    LET h == calendars[account_id]
        document_id == by_name(h, path)
        r == [IdleQuery EXCEPT !.account_id = account_id, !.path = path,
                               !.filters = filters, !.properties = properties]
        shared_ids == shared_containers(h, {"ReadItems"})
        filter_range == extract_filter_range(filters)
        included == {d \in children(h, document_id) :
                        /\ (is_member(account_id) \/ d \in shared_ids)
                        /\ (filter_range = <<>> \/ is_resource_in_time_range(h[d], filter_range))}
        RECURSIVE Items(_)
        Items(S) == IF S = {} THEN <<>> ELSE <<Min(S)>> \o Items(S \ {Min(S)})
    IN  IF path = <<>> THEN Respond(r, 405)
        ELSE IF document_id = None THEN Respond(r, 404)
        ELSE IF ~is_calendar(h[document_id]) THEN Respond(r, 405)
        ELSE [r EXCEPT !.pc = "query",
                       !.filter_range = filter_range,
                       !.items = Items(included),
                       !.max_time_range = extract_data_range(properties, filter_range)]

VEvent == <<"VCALENDAR", "VEVENT">>

\* January 2025, and a range from the end of January into March
January == TimeRange(0, 62)
Spring == TimeRange(40, 140)

QueryFilters ==
    {AnyOf, AllOf,
     Component(VEvent, Exists),
     Component(<<"VCALENDAR", "VTODO">>, Undefined),
     Component(VEvent, January),
     Component(VEvent, Spring),
     Component(VEvent, TextMatch("lunch", FALSE)),
     Property(VEvent, "SUMMARY", Undefined),
     Property(VEvent, "LOCATION", Undefined),
     Property(VEvent, "SUMMARY", TextMatch("lunch", FALSE)),
     Property(VEvent, "DTSTART", January),
     Property(VEvent, "DTSTART", TimeRange(10, 29)),
     Parameter(VEvent, "DTSTART", "TZID", Undefined),
     Parameter(VEvent, "DTSTART", "TZID", January)}

CalendarData(properties, expand_range, limit_recurrence) ==
    [type |-> "CalendarData", properties |-> properties, expand |-> expand_range,
     limit_recurrence |-> limit_recurrence, limit_freebusy |-> <<>>]

\* the property lists of a request: the etag only, the whole calendar data,
\* the expanded calendar data of January, and the summaries of the events
\* of a recurrence set limited to the first half of January
QueryProperties ==
    {<<[type |-> "GetETag"]>>,
     <<CalendarData(<<>>, <<>>, <<>>)>>,
     <<CalendarData(<<>>, date_range(January), <<>>)>>,
     <<CalendarData(<<[component |-> "VEVENT", name |-> "SUMMARY", no_value |-> FALSE]>>,
                    <<>>, date_range(TimeRange(0, 30)))>>}

\* lines 56-129: a calendar-query arrives and is answered at once with an
\* error, or its items are handed to the query stage
QueryStart ==
    /\ query.pc = "idle"
    /\ \E account_id \in Accounts, path \in {<<>>, <<"work">>, <<"work", "jan">>, <<"none">>, <<"team">>},
          filters \in SeqsUpTo(QueryFilters, MaxFilters), properties \in QueryProperties :
          query' = CalendarQueryRequest(account_id, path, filters, properties)
    /\ UNCHANGED <<files, next_document_id, cm, requests, calendars, pp, cards, get, reported, uri, urn, del>>

\* the query stage looks at the next item: a handler is made for the event,
\* the event is filtered and, when it is admitted and calendar data is
\* requested, serialized.  Items that are not admitted are kept in the
\* record with admitted FALSE; they are not part of the answer.
QueryItem ==
    /\ query.pc = "query"
    /\ Len(query.responses) < Len(query.items)
    /\ LET document_id == query.items[Len(query.responses) + 1]
           event == calendars[query.account_id][document_id]
           handler == CalendarQueryHandler(event, query.max_time_range)
           filtered == filter(handler, event, query.filters)
           after == [handler EXCEPT !.filtered_components = filtered.filtered_components]
           datas == SelectSeq(query.properties, LAMBDA prop : prop.type = "CalendarData")
       IN  query' = [query EXCEPT !.responses = Append(@,
                        [document_id |-> document_id,
                         admitted |-> filtered.result,
                         handler |-> after,
                         calendar_data |-> IF filtered.result /\ datas # <<>>
                                           THEN serialize_ical(after, event, Head(datas))
                                           ELSE <<>>])]
    /\ UNCHANGED <<files, next_document_id, cm, requests, calendars, pp, cards, get, reported, uri, urn, del>>

\* every item has been looked at: the multistatus answer
QueryFinish ==
    /\ query.pc = "query"
    /\ Len(query.responses) = Len(query.items)
    /\ query' = Respond(query, 207)
    /\ UNCHANGED <<files, next_document_id, cm, requests, calendars, pp, cards, get, reported, uri, urn, del>>

QueryReturn ==
    /\ query.pc = "done"
    /\ query' = IdleQuery
    /\ UNCHANGED <<files, next_document_id, cm, requests, calendars, pp, cards, get, reported, uri, urn, del>>

InitQuery ==
    /\ files = InitFiles
    /\ next_document_id = [account_id \in Accounts |-> 4]
    /\ cm = IdleCm
    /\ requests = 0
    /\ calendars = InitQueryCalendars
    /\ pp = IdlePp
    /\ cards = <<>> /\ get = <<>> /\ reported = <<>> /\ uri = <<>> /\ urn = <<>> /\ del = <<>>
    /\ query = IdleQuery

NextQuery ==
    \/ QueryStart
    \/ QueryItem
    \/ QueryFinish
    \/ QueryReturn

SpecQuery == InitQuery /\ [][NextQuery]_vars

-----------------------------------------------------------------------------
(* Properties of the calendar-query pre-filter                             *)

\* the time ranges carried by the predicates of the query
QueryTimeRanges ==
    {query.filters[i].op : i \in {i \in DOMAIN query.filters :
                                     /\ query.filters[i].type \in {"Component", "Property", "Parameter"}
                                     /\ query.filters[i].op.op = "TimeRange"}}

QueryHandedOver == query.pc = "query" \/ (query.pc = "done" /\ query.status = 207)

\* C26: when some predicate of a calendar-query carries a time range, the
\* pre-filter range is [min start, max end] over all the time ranges of the
\* query (so [T1,T2] for a query with the one time range [T1,T2]), and every
\* resource handed to the query stage has a stored event_time_range that
\* intersects it; a resource without a stored event_time_range is never
\* handed over.
C26_PreFilterWithinRange ==
    (QueryHandedOver /\ QueryTimeRanges # {}) =>
        LET lo == CHOOSE t \in {op.start : op \in QueryTimeRanges} :
                      \A op \in QueryTimeRanges : t <= op.start
            hi == CHOOSE t \in {op.end : op \in QueryTimeRanges} :
                      \A op \in QueryTimeRanges : t >= op.end
        IN  /\ query.filter_range = [start |-> lo, end |-> hi]
            /\ \A k \in DOMAIN query.items :
                  LET range == calendars[query.account_id][query.items[k]].event_time_range
                  IN  /\ range # <<>>
                      /\ range[1] <= hi
                      /\ range[2] >= lo

\* a query for the events of January and of spring: the range is 0 to 140,
\* and the event of March is handed over while the to-do is not
C26_Witness ==
    /\ query.pc = "query"
    /\ query.account_id = 0
    /\ query.filters = <<Component(VEvent, January), Component(VEvent, Spring)>>
    /\ query.filter_range = [start |-> 0, end |-> 140]
    /\ query.items = <<1, 2, 3, 4, 6>>

-----------------------------------------------------------------------------
(* Properties of CalendarQueryHandler::filter                              *)

IsPredicate(f) == f.type \in {"Component", "Property", "Parameter"}

\* a component selected by the predicate carries the property (parameter)
\* the predicate names
Carries(ical, f) ==
    \E k \in DOMAIN find_components(ical, f.comp) :
        LET entry == find_property(find_components(ical, f.comp)[k].component, f.prop)
        IN  /\ entry # <<>>
            /\ (f.type = "Parameter" => find_parameter(entry, f.param) # <<>>)

\* the truth of one predicate on an event with its expanded instances,
\* taken by itself: Undefined is the absence of what the predicate names
PredicateHolds(ical, expanded_times, f) ==
    LET comps == find_components(ical, f.comp)
        Values(k) == find_property(comps[k].component, f.prop).values
    IN  CASE f.type = "Component" /\ f.op.op = "Exists" -> comps # <<>>
          [] f.type = "Component" /\ f.op.op = "Undefined" -> comps = <<>>
          [] f.type = "Component" /\ f.op.op = "TextMatch" -> FALSE
          [] f.type = "Component" /\ f.op.op = "TimeRange" ->
                \E i \in DOMAIN expanded_times, k \in DOMAIN comps :
                    /\ expanded_times[i].comp_id = comps[k].id
                    /\ is_in_range(date_range(f.op), comps[k].component.component_type = "VTODO",
                                   expanded_times[i].start, expanded_times[i].end)
          [] f.type \in {"Property", "Parameter"} /\ f.op.op = "Exists" -> Carries(ical, f)
          [] f.type \in {"Property", "Parameter"} /\ f.op.op = "Undefined" -> ~Carries(ical, f)
          [] f.type = "Property" /\ f.op.op = "TextMatch" ->
                \E k \in DOMAIN comps :
                    /\ find_property(comps[k].component, f.prop) # <<>>
                    /\ \E v \in DOMAIN Values(k) :
                          /\ Values(k)[v].type = "Text"
                          /\ matches(f.op, to_lowercase(Values(k)[v].text))
          [] f.type = "Property" /\ f.op.op = "TimeRange" ->
                \E k \in DOMAIN comps :
                    /\ find_property(comps[k].component, f.prop) # <<>>
                    /\ Values(k) # <<>>
                    /\ Values(k)[1].type = "PartialDateTime"
                    /\ f.op.start <= Values(k)[1].ts
                    /\ Values(k)[1].ts < f.op.end
          [] f.type = "Parameter" /\ f.op.op = "TextMatch" ->
                \E k \in DOMAIN comps :
                    LET entry == find_property(comps[k].component, f.prop)
                    IN  /\ entry # <<>>
                        /\ find_parameter(entry, f.param) # <<>>
                        /\ matches(f.op, to_lowercase(find_parameter(entry, f.param).value))
          [] f.type = "Parameter" /\ f.op.op = "TimeRange" -> FALSE

\* the event of an evaluated item of the query and the truth of the i-th
\* entry of the filter list on it
ItemData(r) == calendars[query.account_id][r.document_id].data

HoldsAt(r, i) == PredicateHolds(ItemData(r), r.handler.expanded_times, query.filters[i])

Evaluated == {query.responses[k] : k \in DOMAIN query.responses}

\* C28: a filter list that is one Property or Parameter predicate with
\* Undefined (evaluated in AllOf mode, the initial mode) admits an event
\* exactly when no component selected by the predicate carries the named
\* property (parameter).
C28_UndefinedIsNegativeExistence ==
    (/\ Len(query.filters) = 1
     /\ query.filters[1].type \in {"Property", "Parameter"}
     /\ query.filters[1].op.op = "Undefined") =>
        \A r \in Evaluated : r.admitted <=> ~Carries(ItemData(r), query.filters[1])

\* the half of C28 that holds: an event without the property is admitted
C28_AbsentIsAdmitted ==
    (/\ Len(query.filters) = 1
     /\ query.filters[1].type \in {"Property", "Parameter"}
     /\ query.filters[1].op.op = "Undefined") =>
        \A r \in Evaluated : ~Carries(ItemData(r), query.filters[1]) => r.admitted

\* Component/Undefined is true exactly when no component is selected
ComponentUndefinedIsNegativeExistence ==
    (/\ Len(query.filters) = 1
     /\ query.filters[1].type = "Component"
     /\ query.filters[1].op.op = "Undefined") =>
        \A r \in Evaluated : r.admitted <=> find_components(ItemData(r), query.filters[1].comp) = <<>>

\* the mode in which the i-th entry of the filter list is evaluated: AllOf
\* at the start, then the mode of the last marker before it
InAllOf(i) ==
    LET markers == {j \in 1..(i - 1) : ~IsPredicate(query.filters[j])}
    IN  \/ markers = {}
        \/ query.filters[CHOOSE j \in markers : \A m \in markers : m <= j].type = "AllOf"

EntirelyAnyOf ==
    /\ query.filters # <<>>
    /\ query.filters[1].type = "AnyOf"
    /\ \A i \in DOMAIN query.filters : query.filters[i].type # "AllOf"

\* the predicates of the query that are false on an item though evaluated
\* in AllOf mode
FailingInAllOf(r) ==
    {i \in DOMAIN query.filters :
        IsPredicate(query.filters[i]) /\ InAllOf(i) /\ ~HoldsAt(r, i)}

\* the statement of C27 for the predicates in the set P
ModesFor(P) ==
    \A r \in Evaluated :
        /\ (\A i \in DOMAIN query.filters : IsPredicate(query.filters[i]) => query.filters[i] \in P) =>
            /\ FailingInAllOf(r) # {} =>
                LET first == CHOOSE i \in FailingInAllOf(r) : \A j \in FailingInAllOf(r) : i <= j
                    event == calendars[query.account_id][r.document_id]
                    handler == CalendarQueryHandler(event, query.max_time_range)
                IN  /\ ~r.admitted
                    /\ r.handler.filtered_components =
                          filter(handler, event, SubSeq(query.filters, 1, first)).filtered_components
            /\ EntirelyAnyOf =>
                (r.admitted <=> \E i \in DOMAIN query.filters :
                                   IsPredicate(query.filters[i]) /\ HoldsAt(r, i))

\* C27: while filter is in AllOf mode (the initial mode) the first predicate
\* that is false makes it return false at once, later predicates being
\* left unevaluated; a list evaluated entirely in AnyOf mode is answered
\* true if and only if at least one of its predicates is true.
C27_AllOfShortCircuitsAnyOfAdmits == ModesFor(QueryFilters)

\* the same for lists without a Property or Parameter predicate with
\* Undefined
C27_ExceptUndefined ==
    ModesFor({f \in QueryFilters : f.type = "Component" \/ f.op.op # "Undefined"})

-----------------------------------------------------------------------------
(* Properties of the expanded calendar data                                *)

\* the expand range of the query, <<>> when calendar data is not asked
\* for or not expanded
ExpandRange ==
    LET datas == SelectSeq(query.properties, LAMBDA prop : prop.type = "CalendarData")
    IN  IF datas = <<>> THEN <<>> ELSE Head(datas).expand

\* the places of the output where an expanded block has its DTSTART
ExpandedBlocks(out) == {i \in DOMAIN out : Len(out[i]) = 3 /\ out[i][1] = "DTSTART"}

HasRecurrenceId(out, i) == i < Len(out) /\ out[i + 1][1] = "RECURRENCE-ID"

\* the instances that make an expanded block: those of the recurrent and
\* override components that are not filtered out, inside the expand range
ExpandedInstances(r) ==
    LET ical == ItemData(r)
        component(e) == ical.components[e.comp_id + 1]
    IN  {e \in {r.handler.expanded_times[k] : k \in DOMAIN r.handler.expanded_times} :
            /\ is_recurrent(component(e)) \/ is_recurrence_override(component(e))
            /\ r.handler.filtered_components # {} => e.comp_id \in r.handler.filtered_components
            /\ is_in_range(ExpandRange, component(e).component_type = "VTODO", e.start, e.end)}

\* the query of the example: the events with a DTSTART in January, expanded
\* over January; 'weekly' is the event at 2025-01-15T12:00Z repeated weekly
\* 10 times
ExampleAnswers ==
    IF /\ query.account_id = 0
       /\ query.filters = <<Property(VEvent, "DTSTART", January)>>
       /\ ExpandRange = date_range(January)
    THEN {r \in Evaluated : calendars[0][r.document_id].name = "weekly"}
    ELSE {}

\* one block for each expanded instance in the expand range, with distinct
\* DTSTARTs for the instances of one component, and a RECURRENCE-ID in the
\* blocks of overrides only
OneBlockPerInstance ==
    ExpandRange # <<>> =>
        \A r \in {r \in Evaluated : r.admitted} :
            LET out == r.calendar_data
                ical == ItemData(r)
            IN  /\ Cardinality(ExpandedBlocks(out)) = Cardinality(ExpandedInstances(r))
                /\ \A e \in ExpandedInstances(r) :
                      Cardinality({i \in ExpandedBlocks(out) : out[i][3] = e.start}) =
                      Cardinality({x \in ExpandedInstances(r) : x.start = e.start})
                /\ \A e, x \in ExpandedInstances(r) :
                      (e.comp_id = x.comp_id /\ e.start = x.start) => e = x
                /\ \A i \in ExpandedBlocks(out) :
                      HasRecurrenceId(out, i) <=>
                          \E e \in ExpandedInstances(r) :
                              /\ e.start = out[i][3]
                              /\ is_recurrence_override(ical.components[e.comp_id + 1])
                /\ \A i \in DOMAIN out :
                      out[i][1] = "RECURRENCE-ID" => (i - 1) \in ExpandedBlocks(out)

\* C29 as stated: the answer of the example holds 4 expanded VEVENT blocks
\* for the weekly event, and in general there is one block for each
\* expanded instance in the expand range, each with a distinct DTSTART, and
\* RECURRENCE-ID is written for overrides only.
C29_FourExpandedBlocks ==
    /\ \A r \in ExampleAnswers : r.admitted /\ Cardinality(ExpandedBlocks(r.calendar_data)) = 4
    /\ OneBlockPerInstance

\* C29 amended: the answer of the example holds 3 expanded VEVENT blocks
\* for the weekly event, at 01-15, 01-22 and 01-29 (the instance of 02-05
\* and the later ones are after the range); the general statement is as
\* claimed.
C29_ThreeExpandedBlocks ==
    /\ \A r \in ExampleAnswers :
          /\ r.admitted
          /\ {r.calendar_data[i][3] : i \in ExpandedBlocks(r.calendar_data)} = {29, 43, 57}
          /\ Cardinality(ExpandedBlocks(r.calendar_data)) = 3
          /\ \A i \in ExpandedBlocks(r.calendar_data) :
                /\ r.calendar_data[i - 1] = <<"BEGIN", "VEVENT">>
                /\ ~HasRecurrenceId(r.calendar_data, i)
    /\ OneBlockPerInstance

\* the example has been answered, the weekly event and the event with a
\* moved instance among the answers; the block of the moved instance has
\* the RECURRENCE-ID
C29_Witness ==
    /\ query.pc = "done"
    /\ \E r \in ExampleAnswers : Cardinality(ExpandedBlocks(r.calendar_data)) = 3
    /\ \E r \in Evaluated :
          /\ r.admitted
          /\ calendars[0][r.document_id].name = "moved"
          /\ {r.calendar_data[i][3] : i \in ExpandedBlocks(r.calendar_data)} = {5, 21, 33}
          /\ \E i \in ExpandedBlocks(r.calendar_data) :
                r.calendar_data[i][3] = 21 /\ HasRecurrenceId(r.calendar_data, i)

-----------------------------------------------------------------------------
(* DELETE of a calendar or of an event (calendar/delete.rs)                *)

MaxDeleteRequests == 2      \* DELETE requests issued in one behaviour

IdleDel ==
    [pc |-> "idle", account_id |-> None, path |-> <<>>, document_id |-> None,
     batch |-> {}, status |-> 0, committed |-> FALSE, calendars0 |-> <<>>]

\* lines 79-87: a calendar may be deleted by a member of the account and by
\* a requester whose effective rights on it hold both Delete and RemoveItems
ContainerDeleteAllowed_DeleteOnly(h, account_id, document_id) ==
    is_member(account_id) \/ "Delete" \in h[document_id].acls

ContainerDeleteAllowed(h, account_id, document_id) ==
    is_member(account_id) \/ {"Delete", "RemoveItems"} \subseteq h[document_id].acls

\* lines 38-177: everything up to the commit.  The batch is the set of the
\* documents it deletes: the calendar with the events under it, or the one
\* event.
CalendarDeleteRequest(account_id, path, headers_ok) ==
    LET resources == calendars[account_id]
        document_id == by_name(resources, path)
        r == [IdleDel EXCEPT !.account_id = account_id, !.path = path,
                             !.calendars0 = calendars]
    IN  IF path = <<>> THEN Respond(r, 403)
        ELSE IF document_id = None THEN Respond(r, 403)
        ELSE
        LET r1 == [r EXCEPT !.document_id = document_id]
        IN  IF is_calendar(resources[document_id])
            THEN IF ~get_archive(calendars, account_id, document_id) THEN Respond(r1, 404)
                 ELSE IF ~ContainerDeleteAllowed(resources, account_id, document_id)
                 THEN Respond(r1, 403)
                 ELSE IF ~headers_ok THEN Respond(r1, 412)
                 ELSE [r1 EXCEPT !.pc = "commit",
                                 !.batch = {document_id} \cup
                                           {d \in subtree(resources, path) :
                                               ~is_calendar(resources[d])}]
            ELSE IF ~validate_acl(resources, account_id,
                                  resource_parent_id(resources, document_id), "RemoveItems")
                 THEN Respond(r1, 403)
                 ELSE IF ~get_archive(calendars, account_id, document_id) THEN Respond(r1, 404)
                 ELSE IF ~headers_ok THEN Respond(r1, 412)
                 ELSE [r1 EXCEPT !.pc = "commit", !.batch = {document_id}]

DelStart ==
    /\ del.pc = "idle"
    /\ requests < MaxDeleteRequests
    /\ \E account_id \in Accounts,
          path \in {<<>>, <<"work">>, <<"work", "ev">>, <<"home">>, <<"home", "party">>, <<"none">>},
          headers_ok \in BOOLEAN :
          del' = CalendarDeleteRequest(account_id, path, headers_ok)
    /\ requests' = requests + 1
    /\ UNCHANGED <<files, next_document_id, cm, calendars, pp, cards, get, reported, uri, urn, query>>

\* lines 179-181: commit_batch and the answer
DelCommit ==
    /\ del.pc = "commit"
    /\ calendars' = StoreDelete(calendars, del.account_id, del.batch)
    /\ del' = [del EXCEPT !.pc = "done", !.status = 204, !.committed = TRUE]
    /\ UNCHANGED <<files, next_document_id, cm, requests, pp, cards, get, reported, uri, urn, query>>

\* the request is aborted while it waits for the commit; status 0: no response
DelCancel ==
    /\ del.pc = "commit"
    /\ del' = [del EXCEPT !.pc = "done", !.status = 0]
    /\ UNCHANGED <<files, next_document_id, cm, requests, calendars, pp, cards, get, reported, uri, urn, query>>

DelReturn ==
    /\ del.pc = "done"
    /\ del' = IdleDel
    /\ UNCHANGED <<files, next_document_id, cm, requests, calendars, pp, cards, get, reported, uri, urn, query>>

(* Each account has the calendars work/ (events ev and ev2) and home/       *)
(* (event party).  The token is a member of account 0; on account 1 it      *)
(* holds any part of Delete and RemoveItems on work/ and on home/.          *)
InitDelete ==
    /\ files = InitFiles
    /\ next_document_id = [account_id \in Accounts |-> 5]
    /\ cm = IdleCm
    /\ requests = 0
    /\ \E work \in SUBSET {"Delete", "RemoveItems"}, home \in SUBSET {"Delete", "RemoveItems"} :
          calendars = [account_id \in Accounts |->
              (0 :> Calendar("work", Str(1), <<Str(1)>>, IF account_id = 0 THEN {} ELSE work)) @@
              (1 :> CalendarEvent(1, "ev")) @@
              (2 :> CalendarEvent(1, "ev2")) @@
              (3 :> Calendar("home", Str(1), <<Str(1)>>, IF account_id = 0 THEN {} ELSE home)) @@
              (4 :> CalendarEvent(4, "party"))]
    /\ pp = IdlePp
    /\ cards = <<>> /\ get = <<>> /\ reported = <<>> /\ uri = <<>> /\ urn = <<>> /\ query = <<>>
    /\ del = IdleDel

NextDelete ==
    \/ DelStart
    \/ DelCommit
    \/ DelCancel
    \/ DelReturn

SpecDelete == InitDelete /\ [][NextDelete]_vars

-----------------------------------------------------------------------------
(* Properties of DELETE                                                    *)

DelTarget == del.calendars0[del.account_id][del.document_id]

\* the requester holds a right on a calendar of the request's account: as a
\* member of the account or by the calendar's ACL
DelHolds(document_id, right) ==
    is_member(del.account_id) \/ right \in del.calendars0[del.account_id][document_id].acls

DelRefused == (del.pc = "done" => del.status = 403) /\ calendars = del.calendars0

\* the store after the deletion of the calendar of the request and of the
\* events in it
WithoutCalendar ==
    StoreDelete(del.calendars0, del.account_id,
                {del.document_id} \cup children(del.calendars0[del.account_id], del.document_id))

\* C30: a DELETE of a calendar by a requester without RemoveItems or without
\* Delete on it is answered 403 and changes nothing; so is a DELETE of an
\* event by a non-member without RemoveItems on the calendar of the event;
\* a container DELETE answered 204 has removed the calendar and every event
\* in it, and no state of the request has a part of them removed.
C30_DeleteRefusedOrWhole ==
    (del.pc # "idle" /\ del.document_id # None) =>
        /\ (/\ is_calendar(DelTarget)
            /\ ~(DelHolds(del.document_id, "RemoveItems") /\ DelHolds(del.document_id, "Delete")))
           => DelRefused
        /\ (/\ ~is_calendar(DelTarget)
            /\ ~is_member(del.account_id)
            /\ ~DelHolds(resource_parent_id(del.calendars0[del.account_id], del.document_id), "RemoveItems"))
           => DelRefused
        /\ is_calendar(DelTarget) =>
            /\ calendars \in {del.calendars0, WithoutCalendar}
            /\ (del.pc = "done" /\ del.status = 204) => calendars = WithoutCalendar
            /\ calendars = WithoutCalendar => (del.pc = "done" /\ del.status = 204)

\* the calendar work/ of account 1 has been deleted with its two events by
\* a requester holding Delete and RemoveItems on it, as the second request
C30_Witness ==
    /\ del.pc = "done"
    /\ del.status = 204
    /\ del.account_id = 1
    /\ del.path = <<"work">>
    /\ DOMAIN calendars[1] = {3, 4}
    /\ calendars[1][3].acls = {"RemoveItems"}
    /\ requests = 2

\* a DELETE of home/ of account 1 by a requester holding RemoveItems only
\* is refused
C30_Refused ==
    /\ del.pc = "done"
    /\ del.status = 403
    /\ del.account_id = 1
    /\ del.path = <<"home">>
    /\ del.calendars0[1][3].acls = {"RemoveItems"}

-----------------------------------------------------------------------------
(* Properties of the time-range and text-match predicates                  *)

\* some component selected by the predicate has the named property with a
\* date-time inside the half-open range of the predicate
HasTimeWithin(ical, f) ==
    \E k \in DOMAIN find_components(ical, f.comp) :
        LET entry == find_property(find_components(ical, f.comp)[k].component, f.prop)
        IN  /\ entry # <<>>
            /\ entry.values # <<>>
            /\ entry.values[1].type = "PartialDateTime"
            /\ f.op.start <= entry.values[1].ts
            /\ entry.values[1].ts < f.op.end

\* a Parameter predicate with a time range, a Component predicate with a
\* text match
NeverTrue(f) ==
    \/ f.type = "Parameter" /\ f.op.op = "TimeRange"
    \/ f.type = "Component" /\ f.op.op = "TextMatch"

\* C33: a Property predicate with a time range is true exactly when some
\* selected component has the property with a date-time t, start <= t < end;
\* a Parameter predicate with a time range and a Component predicate with a
\* text match are never true: they exclude the event in AllOf mode and do
\* not admit it in AnyOf mode.
C33_TimeRangeHalfOpen ==
    \A r \in Evaluated :
        /\ (/\ Len(query.filters) = 1
            /\ query.filters[1].type = "Property"
            /\ query.filters[1].op.op = "TimeRange")
           => (r.admitted <=> HasTimeWithin(ItemData(r), query.filters[1]))
        /\ (\E i \in DOMAIN query.filters : NeverTrue(query.filters[i]) /\ InAllOf(i))
           => ~r.admitted
        /\ (/\ EntirelyAnyOf
            /\ \A i \in DOMAIN query.filters :
                  IsPredicate(query.filters[i]) => NeverTrue(query.filters[i]))
           => ~r.admitted

\* the events with a DTSTART from 10 to before 29: 'jan', which starts at
\* 10, is admitted and 'weekly', which starts at 29, is not
C33_Witness ==
    /\ query.pc = "done"
    /\ query.filters = <<Property(VEvent, "DTSTART", TimeRange(10, 29))>>
    /\ \E r \in Evaluated : r.document_id = 1 /\ r.admitted
    /\ \E r \in Evaluated : r.document_id = 2 /\ ~r.admitted
    /\ calendars[0][1].data.components[2].entries[1].values[1].ts = 10
    /\ calendars[0][2].data.components[2].entries[1].values[1].ts = 29

-----------------------------------------------------------------------------
(* Properties of the filtered components                                   *)

\* the Component predicates with a time range that filter has evaluated on
\* an item that it admitted: all of them, no predicate having returned
ComponentTimeRanges ==
    {i \in DOMAIN query.filters :
        query.filters[i].type = "Component" /\ query.filters[i].op.op = "TimeRange"}

\* the components of the item with an expanded instance in the range of
\* the i-th predicate
InRangeOf(r, i) ==
    LET f == query.filters[i]
        comps == find_components(ItemData(r), f.comp)
    IN  {r.handler.expanded_times[e].comp_id : e \in
            {e \in DOMAIN r.handler.expanded_times :
                \E k \in DOMAIN comps :
                    /\ comps[k].id = r.handler.expanded_times[e].comp_id
                    /\ is_in_range(date_range(f.op), comps[k].component.component_type = "VTODO",
                                   r.handler.expanded_times[e].start,
                                   r.handler.expanded_times[e].end)}}

\* the statement of C34 for the lists whose modes are in M
IntersectionIn(M) ==
    \A r \in Evaluated :
        (/\ r.admitted
         /\ ComponentTimeRanges # {}
         /\ \A i \in ComponentTimeRanges : (IF InAllOf(i) THEN "AllOf" ELSE "AnyOf") \in M)
        => r.handler.filtered_components =
              {c \in 0..(Len(ItemData(r).components) - 1) :
                  \A i \in ComponentTimeRanges : c \in InRangeOf(r, i)}

\* C34: when filter has evaluated the Component predicates with a time
\* range of a list and returned true, the filtered components are the
\* intersection of the sets of the predicates, in AllOf and in AnyOf mode.
C34_FilteredIsIntersection == IntersectionIn({"AllOf", "AnyOf"})

\* the same for the predicates evaluated in AllOf mode
C34_InAllOf == IntersectionIn({"AllOf"})

-----------------------------------------------------------------------------
(* Completeness of the calendar-query pre-filter                           *)

\* the events of the calendar of the query
QueryChildren ==
    children(calendars[query.account_id], by_name(calendars[query.account_id], query.path))

\* C37: when the query has a filter range [T1,T2], every event of the
\* calendar whose stored time range (s,e) overlaps it (s < T2 and e > T1) is
\* handed to the query stage of a member of the account, an event that
\* starts before T1 and ends after T2 included.
C37_PreFilterComplete ==
    (QueryHandedOver /\ query.filter_range # <<>> /\ is_member(query.account_id)) =>
        \A d \in QueryChildren :
            LET range == calendars[query.account_id][d].event_time_range
            IN  (/\ range # <<>>
                 /\ range[1] < query.filter_range.end
                 /\ range[2] > query.filter_range.start)
                => \E k \in DOMAIN query.items : query.items[k] = d

\* the same for the events that start or end inside the range
C37_EndpointInside ==
    (QueryHandedOver /\ query.filter_range # <<>> /\ is_member(query.account_id)) =>
        \A d \in QueryChildren :
            LET range == calendars[query.account_id][d].event_time_range
            IN  (/\ range # <<>>
                 /\ \/ (query.filter_range.start <= range[1] /\ range[1] <= query.filter_range.end)
                    \/ (query.filter_range.start <= range[2] /\ range[2] <= query.filter_range.end))
                => \E k \in DOMAIN query.items : query.items[k] = d

\* the list mixes a predicate with a time range and a predicate without
MixesTimeRange ==
    /\ QueryTimeRanges # {}
    /\ \E i \in DOMAIN query.filters :
          IsPredicate(query.filters[i]) /\ query.filters[i].op.op # "TimeRange"

\* some predicate of the query is true on the event d of the calendar
SomePredicateHolds(d) ==
    LET event == calendars[query.account_id][d]
        handler == CalendarQueryHandler(event, query.max_time_range)
    IN  \E i \in DOMAIN query.filters :
            /\ IsPredicate(query.filters[i])
            /\ PredicateHolds(event.data, handler.expanded_times, query.filters[i])

\* C38: for a filter list in AnyOf mode that mixes a predicate with a time
\* range and one without, every event of the calendar for which some
\* predicate is true, and which filter admits, is handed to the query stage.
C38_PreFilterKeepsAdmitted ==
    (QueryHandedOver /\ is_member(query.account_id) /\ EntirelyAnyOf /\ MixesTimeRange) =>
        \A d \in QueryChildren :
            (/\ SomePredicateHolds(d)
             /\ filter(CalendarQueryHandler(calendars[query.account_id][d], query.max_time_range),
                       calendars[query.account_id][d], query.filters).result)
            => \E k \in DOMAIN query.items : query.items[k] = d

\* the failure of C38 that owes nothing to events across the range nor to
\* Undefined: the events of January or with the summary "lunch"; the event
\* of March with that summary is not handed over
C38_LunchInMarch ==
    (/\ QueryHandedOver
     /\ query.account_id = 0
     /\ query.filters = <<AnyOf, Component(VEvent, January),
                          Property(VEvent, "SUMMARY", TextMatch("lunch", FALSE))>>)
    => \E k \in DOMAIN query.items : query.items[k] = 6

\* the pre-filter drops no event when no predicate has a time range
C38_NoRangeKeepsAll ==
    (QueryHandedOver /\ is_member(query.account_id) /\ QueryTimeRanges = {}) =>
        \A d \in QueryChildren : \E k \in DOMAIN query.items : query.items[k] = d

-----------------------------------------------------------------------------
(* The serialization of an event on its own: serialize_ical is applied to  *)
(* an event of the calendar for a handler with any set of filtered         *)
(* components and any combination of the options of the calendar data.     *)

\* the calendar work/ with two more events: a free-busy component with one
\* period in the first half of January and one in the second, and a
\* recurrent event with an alarm next to a time zone with a child
SerializeCalendar ==
    LET at(name, ts) == Entry(name, <<>>, <<PartialDateTime(ts)>>)
        period(start, end) == [type |-> "Period", start |-> start, end |-> end]
    IN  (7 :> EventResource("busy", <<0, 60>>,
                <<VCalendar(<<1>>),
                  ICalendarComponent("VFREEBUSY",
                      <<at("DTSTART", 0), at("DTEND", 60),
                        Entry("FREEBUSY", <<>>, <<period(2, 4)>>),
                        Entry("FREEBUSY", <<>>, <<period(40, 44)>>)>>, <<>>)>>)) @@
        (8 :> EventResource("zoned", <<8, 37>>,
                <<VCalendar(<<1, 3>>),
                  ICalendarComponent("VTIMEZONE", <<Entry("TZID", <<>>, <<Text("Europe")>>)>>, <<2>>),
                  ICalendarComponent("STANDARD", <<at("DTSTART", 0)>>, <<>>),
                  ICalendarComponent("VEVENT",
                      <<at("DTSTART", 8), at("DTEND", 9),
                        Entry("RRULE", <<>>, <<RecurrenceRule(14, 3)>>),
                        Entry("SUMMARY", <<>>, <<Text("call")>>)>>, <<4>>),
                  ICalendarComponent("VALARM", <<Entry("ACTION", <<>>, <<Text("DISPLAY")>>)>>, <<>>)>>)) @@
        InitQueryCalendars[0]

IdleSerialize ==
    [pc |-> "idle", document_id |-> None, handler |-> <<>>, data |-> <<>>, out |-> <<>>]

\* the projections of a calendar-data element: none, the summaries of the
\* events, the alarms without their values, and one that selects nothing
SerializeProjections ==
    {<<>>,
     <<[component |-> "VEVENT", name |-> "SUMMARY", no_value |-> FALSE]>>,
     <<[component |-> "VALARM", name |-> "", no_value |-> TRUE]>>,
     <<[component |-> "VTODO", name |-> "DUE", no_value |-> FALSE]>>}

\* a handler is made for an event as in lines 223-243 and holds some set of
\* filtered components when serialize_ical is called
SerializeStart ==
    /\ query.pc = "idle"
    /\ \E document_id \in DOMAIN calendars[0] \ {0},
          properties \in SerializeProjections,
          expand_range \in {<<>>, date_range(January)},
          limit_recurrence \in {<<>>, date_range(TimeRange(0, 30))},
          limit_freebusy \in {<<>>, date_range(TimeRange(0, 30))},
          filter_range \in {<<>>, date_range(January)} :
          LET event == calendars[0][document_id]
              data == [CalendarData(properties, expand_range, limit_recurrence)
                          EXCEPT !.limit_freebusy = limit_freebusy]
              handler == CalendarQueryHandler(event, extract_data_range(<<data>>, filter_range))
          IN  \E filtered_components \in SUBSET (0..(Len(event.data.components) - 1)) :
                  query' = [IdleSerialize EXCEPT
                               !.pc = "serialize",
                               !.document_id = document_id,
                               !.handler = [handler EXCEPT !.filtered_components = filtered_components],
                               !.data = data]
    /\ UNCHANGED <<files, next_document_id, cm, requests, calendars, pp, cards, get, reported, uri, urn, del>>

\* lines 402-600
SerializeIcal ==
    /\ query.pc = "serialize"
    /\ query' = [query EXCEPT !.pc = "serialized",
                              !.out = serialize_ical(query.handler,
                                                     calendars[0][query.document_id], query.data)]
    /\ UNCHANGED <<files, next_document_id, cm, requests, calendars, pp, cards, get, reported, uri, urn, del>>

SerializeReturn ==
    /\ query.pc = "serialized"
    /\ query' = IdleSerialize
    /\ UNCHANGED <<files, next_document_id, cm, requests, calendars, pp, cards, get, reported, uri, urn, del>>

InitSerialize ==
    /\ files = InitFiles
    /\ next_document_id = [account_id \in Accounts |-> 4]
    /\ cm = IdleCm
    /\ requests = 0
    /\ calendars = [account_id \in Accounts |-> SerializeCalendar]
    /\ pp = IdlePp
    /\ cards = <<>> /\ get = <<>> /\ reported = <<>> /\ uri = <<>> /\ urn = <<>> /\ del = <<>>
    /\ query = IdleSerialize

NextSerialize ==
    \/ SerializeStart
    \/ SerializeIcal
    \/ SerializeReturn

SpecSerialize == InitSerialize /\ [][NextSerialize]_vars

-----------------------------------------------------------------------------
(* Properties of the serialized output                                     *)

IsBegin(line) == Len(line) = 2 /\ line[1] = "BEGIN"
IsEnd(line) == Len(line) = 2 /\ line[1] = "END"

\* the component types open after the first n lines of out, innermost
\* last; <<"!">> once an END did not match the innermost open BEGIN
OpenAfter(out, n) ==
    LET RECURSIVE Scan(_, _)
        Scan(k, stack) ==
            IF k > n \/ stack = <<"!">> THEN stack
            ELSE IF IsBegin(out[k]) THEN Scan(k + 1, Append(stack, out[k][2]))
            ELSE IF IsEnd(out[k])
                 THEN IF stack # <<>> /\ stack[Len(stack)] = out[k][2]
                      THEN Scan(k + 1, SubSeq(stack, 1, Len(stack) - 1))
                      ELSE <<"!">>
            ELSE Scan(k + 1, stack)
    IN  Scan(1, <<>>)

\* some component of the type parent has a child of the type child
HasChildOfType(ical, parent, child) ==
    \E i \in DOMAIN ical.components :
        /\ ical.components[i].component_type = parent
        /\ \E j \in DOMAIN ical.components[i].component_ids :
              ical.components[ical.components[i].component_ids[j] + 1].component_type = child

WellNested(ical, out) ==
    /\ OpenAfter(out, Len(out)) = <<>>
    /\ \A k \in DOMAIN out :
          LET open == OpenAfter(out, k - 1)
          IN  /\ open # <<"!">>
              /\ IsBegin(out[k]) =>
                    IF open = <<>> THEN out[k][2] = ical.components[1].component_type
                    ELSE HasChildOfType(ical, open[Len(open)], out[k][2])
              /\ ~IsBegin(out[k]) => open # <<>>

\* C39: the output of serialize_ical is well nested for every set of
\* filtered components and every combination of projection, expand,
\* limit-recurrence and limit-freebusy: every BEGIN is closed by an END of
\* the same component, innermost first, nothing is left open at the end,
\* and a component is written only inside the open block of its parent.
C39_WellNested ==
    query.pc = "serialized" =>
        WellNested(calendars[0][query.document_id].data, query.out)

\* the VEVENT of 'jan' is dropped by the filtered components and its alarm
\* is not written, the calendar block alone is
C39_Witness ==
    /\ query.pc = "serialized"
    /\ query.document_id = 1
    /\ query.handler.filtered_components = {0}
    /\ query.data.properties = <<>>
    /\ query.out = <<(<<"BEGIN", "VCALENDAR">>), (<<"VERSION", TRUE>>), (<<"END", "VCALENDAR">>)>>

\* the traversal takes one turn per component at most and closes each block
\* once: no more BEGIN lines than components unless blocks are expanded
C39_OneBlockPerComponent ==
    (query.pc = "serialized" /\ query.data.expand = <<>>) =>
        Cardinality({k \in DOMAIN query.out : IsBegin(query.out[k])})
            <= Len(calendars[0][query.document_id].data.components)

-----------------------------------------------------------------------------
(* PropStatBuilder (lib.rs): the results for the properties of a resource  *)
(* are grouped by status, condition and description.  The builder is kept  *)
(* in `reported`: propstats is the map of the builder, calls the insert    *)
(* calls made so far, built the vector returned by build.  An Option is a  *)
(* sequence of length 0 or 1.                                              *)

MaxInserts == 3

IdleBuilder ==
    [pc |-> "inserting", propstats |-> [key \in {} |-> <<>>], calls |-> <<>>, built |-> <<>>]

PropStatKey(status, condition, description) ==
    [status |-> status, condition |-> condition, description |-> description]

\* .entry(key).or_default().push(prop)
entry_or_default_push_Overwrite(propstats, key, prop) ==
    [k \in DOMAIN propstats \cup {key} |-> IF k = key THEN <<prop>> ELSE propstats[k]]

entry_or_default_push(propstats, key, prop) ==
    [k \in DOMAIN propstats \cup {key} |->
        IF k # key THEN propstats[k]
        ELSE IF key \in DOMAIN propstats THEN Append(propstats[key], prop)
        ELSE <<prop>>]

\* the builder after a call that pushes prop under key
Inserted(key, prop) ==
    [reported EXCEPT !.propstats = entry_or_default_push(@, key, prop),
                     !.calls = Append(@, [key |-> key, prop |-> prop])]

\* calls are made until build, MaxInserts at most
Inserting == reported.pc = "inserting" /\ Len(reported.calls) < MaxInserts

BuilderProps == {"displayname", "getetag"}
BuilderStatuses == {200, 403}
BuilderConditions == {"valid-timezone"}
BuilderDescriptions == {"bad"}

insert_ok ==
    /\ Inserting
    /\ \E prop \in BuilderProps :
          reported' = Inserted(PropStatKey(200, <<>>, <<>>), prop)
    /\ UNCHANGED <<files, next_document_id, cm, requests, calendars, pp, cards, get, uri, urn, query, del>>

insert_with_status ==
    /\ Inserting
    /\ \E prop \in BuilderProps, status \in BuilderStatuses :
          reported' = Inserted(PropStatKey(status, <<>>, <<>>), prop)
    /\ UNCHANGED <<files, next_document_id, cm, requests, calendars, pp, cards, get, uri, urn, query, del>>

insert_error_with_description ==
    /\ Inserting
    /\ \E prop \in BuilderProps, status \in BuilderStatuses, description \in BuilderDescriptions :
          reported' = Inserted(PropStatKey(status, <<>>, <<description>>), prop)
    /\ UNCHANGED <<files, next_document_id, cm, requests, calendars, pp, cards, get, uri, urn, query, del>>

insert_precondition_failed ==
    /\ Inserting
    /\ \E prop \in BuilderProps, status \in BuilderStatuses, condition \in BuilderConditions :
          reported' = Inserted(PropStatKey(status, <<condition>>, <<>>), prop)
    /\ UNCHANGED <<files, next_document_id, cm, requests, calendars, pp, cards, get, uri, urn, query, del>>

insert_precondition_failed_with_description ==
    /\ Inserting
    /\ \E prop \in BuilderProps, status \in BuilderStatuses, condition \in BuilderConditions, description \in BuilderDescriptions :
          reported' = Inserted(PropStatKey(status, <<condition>>, <<description>>), prop)
    /\ UNCHANGED <<files, next_document_id, cm, requests, calendars, pp, cards, get, uri, urn, query, del>>

\* build: one PropStat per entry of the map, in the order the hash map
\* yields its entries, which is any order
build ==
    /\ reported.pc = "inserting"
    /\ \E order \in [1..Cardinality(DOMAIN reported.propstats) -> DOMAIN reported.propstats] :
          /\ \A i, j \in DOMAIN order : i # j => order[i] # order[j]
          /\ reported' = [reported EXCEPT
                 !.pc = "built",
                 !.built = [i \in DOMAIN order |->
                               [prop |-> reported.propstats[order[i]],
                                status |-> order[i].status,
                                error |-> order[i].condition,
                                response_description |-> order[i].description]]]
    /\ UNCHANGED <<files, next_document_id, cm, requests, calendars, pp, cards, get, uri, urn, query, del>>

BuilderReturn ==
    /\ reported.pc = "built"
    /\ reported' = IdleBuilder
    /\ UNCHANGED <<files, next_document_id, cm, requests, calendars, pp, cards, get, uri, urn, query, del>>

InitPropStat ==
    /\ files = InitFiles
    /\ next_document_id = [account_id \in Accounts |-> 4]
    /\ cm = IdleCm
    /\ requests = 0
    /\ calendars = InitCalendars
    /\ pp = IdlePp
    /\ cards = <<>> /\ get = <<>> /\ uri = <<>> /\ urn = <<>> /\ query = <<>> /\ del = <<>>
    /\ reported = IdleBuilder

NextPropStat ==
    \/ insert_ok
    \/ insert_with_status
    \/ insert_error_with_description
    \/ insert_precondition_failed
    \/ insert_precondition_failed_with_description
    \/ build
    \/ BuilderReturn

SpecPropStat == InitPropStat /\ [][NextPropStat]_vars

-----------------------------------------------------------------------------
(* Properties of PropStatBuilder                                           *)

\* the properties inserted with the key, in the order of the calls
InsertedWith(key) ==
    LET with == SelectSeq(reported.calls, LAMBDA call : call.key = key)
    IN  [i \in DOMAIN with |-> with[i].prop]

KeyOf(propstat) ==
    PropStatKey(propstat.status, propstat.error, propstat.response_description)

\* C31: build returns exactly one PropStat for every distinct (status,
\* condition, description) that was inserted and none else, and the
\* properties of a PropStat are the properties inserted with its triple,
\* each once, in the order of their insertion.
C31_OnePropStatPerTriple ==
    reported.pc = "built" =>
        /\ \A c \in DOMAIN reported.calls :
              Cardinality({i \in DOMAIN reported.built :
                              KeyOf(reported.built[i]) = reported.calls[c].key}) = 1
        /\ \A i \in DOMAIN reported.built :
              /\ reported.built[i].prop # <<>>
              /\ reported.built[i].prop = InsertedWith(KeyOf(reported.built[i]))

\* three calls, two of them with the same triple, built into two PropStat
\* items
C31_Witness ==
    /\ reported.pc = "built"
    /\ Len(reported.calls) = 3
    /\ Len(reported.built) = 2
    /\ \E i \in DOMAIN reported.built :
          reported.built[i].prop = <<"getetag", "displayname">>

-----------------------------------------------------------------------------
(* Properties of the PropStat items of a PROPPATCH                         *)

\* the request got past validation: the set and remove lists were applied
PpPatched == PpAnswered /\ (pp.set # <<>> \/ pp.remove # <<>>)

\* the properties answered by the items of a list, in the order of the items
PpItemsOf(op) ==
    LET of == SelectSeq(pp.items, LAMBDA item : item.op = op)
    IN  [i \in DOMAIN of |-> of[i].prop]

\* C32: a calendar PROPPATCH that got past validation has exactly one
\* PropStat item for every property of its set list and for every property
\* of its remove list.
C32_OneItemPerProperty ==
    PpPatched =>
        /\ PpItemsOf("set") = [i \in DOMAIN pp.set |-> pp.set[i].property]
        /\ PpItemsOf("remove") = pp.remove

PpSetsCreationDate ==
    \E i \in DOMAIN pp.set :
        pp.set[i].property = "CreationDate" /\ pp.set[i].value.type = "Timestamp"

\* the items lack no property but the creation dates that were set and the
\* removes that follow a failed set phase
C32_ExceptCreationDateAndSkippedRemoves ==
    PpPatched =>
        /\ ~PpSetsCreationDate =>
              PpItemsOf("set") = [i \in DOMAIN pp.set |-> pp.set[i].property]
        /\ (pp.is_success \/ ~pp.set_first) => PpItemsOf("remove") = pp.remove
        /\ (~pp.is_success /\ pp.set_first) => PpItemsOf("remove") = <<>>

-----------------------------------------------------------------------------
(* Properties of a MOVE into another container                             *)

\* the parent_id that encodes the container the destination path names as
\* its parent in the hierarchy the request read: 0 for the root, None when
\* the path names no container
CmDestinationParentId ==
    LET h == cm.files0[cm.to_account_id]
        path == cm.destination_resource_name
        parent == by_name(h, SubSeq(path, 1, Len(path) - 1))
    IN  IF Len(path) = 1 THEN 0
        ELSE IF parent # None /\ is_container(h[parent]) THEN parent + 1
        ELSE None

\* a successful MOVE inside an account, to a path that named no resource,
\* under a container (or the root) that is not the parent of the source
CmMovedElsewhere ==
    /\ CmSucceeded
    /\ cm.is_move
    /\ cm.from_account_id = cm.to_account_id
    /\ cm.destination_resource_name # <<>>
    /\ by_name(cm.files0[cm.to_account_id], cm.destination_resource_name) = None
    /\ CmDestinationParentId # None
    /\ CmDestinationParentId # cm.files0[cm.from_account_id][cm.from_resource.document_id].parent_id

\* C35: after a successful MOVE inside an account, without overwrite, of a
\* resource to the path P/n, P being an existing container or the root and
\* not the parent of the resource, the resource is stored with the
\* parent_id that encodes P and with the name n.
C35_MovedUnderDestination ==
    CmMovedElsewhere =>
        LET a == cm.from_account_id
            d == cm.from_resource.document_id
        IN  /\ d \in DOMAIN files[a]
            /\ files[a][d].parent_id = CmDestinationParentId
            /\ files[a][d].name = Last(cm.destination_resource_name)

\* the moves that went through move_item or move_container end under the
\* destination
C35_UnlessRenamed ==
    (CmMovedElsewhere /\ cm.op # "rename") =>
        LET a == cm.from_account_id
            d == cm.from_resource.document_id
        IN  /\ d \in DOMAIN files[a]
            /\ files[a][d].parent_id = CmDestinationParentId
            /\ files[a][d].name = Last(cm.destination_resource_name)

\* a MOVE into another container is never executed as a rename
C35_NeverRenamed == CmMovedElsewhere => cm.op # "rename"

\* a move that is not taken as a rename: /a/b/c to the root
C35_MovedNotRenamed == CmMovedElsewhere /\ cm.op # "rename"

-----------------------------------------------------------------------------
(* Two COPY/MOVE requests in flight together.  cm holds one request record *)
(* per client; each client issues one request inside account 0.  The       *)
(* hierarchy a request resolves its paths in is the one it read when it    *)
(* started (from_files, to_files); the writes go to the store.             *)

CopyClientDestinations ==
    {<<n>> : n \in {"c", "d"}} \cup {<<"a", n>> : n \in {"b", "d"}}

\* lines 38-173 of one client's request
CopyClientStart(i) ==
    /\ cm[i].pc = "idle"
    /\ requests < MaxClients
    /\ \E is_move \in BOOLEAN, overwrite_fail \in BOOLEAN,
          from_path \in {<<"a">>, <<"c">>, <<"a", "b", "c">>},
          destination_resource_name \in CopyClientDestinations :
          cm' = [cm EXCEPT ![i] = ValidateRequest(is_move, 0, from_path, 0,
                                                  destination_resource_name,
                                                  overwrite_fail, "Infinity")]
    /\ requests' = requests + 1
    /\ UNCHANGED <<other_handlers, files, next_document_id, calendars, pp>>

\* lines 175-202
CopyClientHeaders(i) ==
    /\ cm[i].pc = "headers"
    /\ \E ok \in BOOLEAN :
          cm' = [cm EXCEPT ![i] =
                    IF ok THEN [@ EXCEPT !.pc = "quota", !.headers_validated = TRUE]
                          ELSE Respond(@, 412)]
    /\ UNCHANGED <<other_handlers, files, next_document_id, requests, calendars, pp>>

\* lines 204-231
CopyClientQuota(i) ==
    /\ cm[i].pc = "quota"
    /\ IF QuotaRequired(cm[i].is_move, cm[i].from_account_id, cm[i].to_account_id)
       THEN LET space_needed ==
                    SpaceNeeded(cm[i].from_files, cm[i].from_resource.document_id)
                r == [cm[i] EXCEPT !.quota_checked = TRUE, !.space_needed = space_needed]
            IN  \E available \in AvailableQuota :
                   cm' = [cm EXCEPT ![i] = IF space_needed <= available
                                           THEN AfterQuota(r) ELSE Respond(r, 507)]
       ELSE cm' = [cm EXCEPT ![i] = AfterQuota(cm[i])]
    /\ UNCHANGED <<other_handlers, files, next_document_id, requests, calendars, pp>>

\* lines 225-240
CopyClientDelete(i) ==
    /\ cm[i].pc = "delete"
    /\ LET ids == subtree(cm[i].to_files, cm[i].destination_resource_name)
       IN  files' = StoreDelete(files, cm[i].destination.account_id, ids)
    /\ cm' = [cm EXCEPT ![i] = [@ EXCEPT !.pc = "inner", !.commits = Append(@, "delete")]]
    /\ UNCHANGED <<other_handlers, next_document_id, requests, calendars, pp>>

\* lines 242-290: the inner operation and its commit
CopyClientInner(i) ==
    /\ cm[i].pc = "inner"
    /\ LET o == Dispatch(cm[i], files, next_document_id)
       IN  /\ files' = o.files
           /\ next_document_id' = o.next
           /\ cm' = [cm EXCEPT ![i] =
                        Finish(@, [o EXCEPT !.status = FinalStatus(cm[i].is_overwrite, @)],
                               "write")]
    /\ UNCHANGED <<other_handlers, requests, calendars, pp>>

\* lines 141-147
CopyClientRename(i) ==
    /\ cm[i].pc = "rename"
    /\ LET o == rename_item(cm[i], files, next_document_id)
       IN  /\ files' = o.files
           /\ next_document_id' = o.next
           /\ cm' = [cm EXCEPT ![i] = Finish(@, o, "rename")]
    /\ UNCHANGED <<other_handlers, requests, calendars, pp>>

InitCopyClients ==
    /\ files = InitFiles
    /\ next_document_id = [account_id \in Accounts |-> 4]
    /\ cm = [i \in Clients |-> IdleCm]
    /\ requests = 0
    /\ calendars = InitCalendars
    /\ pp = IdlePp
    /\ OthersIdle

NextCopyClients ==
    \E i \in Clients :
        \/ CopyClientStart(i)
        \/ CopyClientHeaders(i)
        \/ CopyClientQuota(i)
        \/ CopyClientDelete(i)
        \/ CopyClientInner(i)
        \/ CopyClientRename(i)

SpecCopyClients == InitCopyClients /\ [][NextCopyClients]_vars

-----------------------------------------------------------------------------
(* Properties of concurrent copies                                         *)

\* the resources stored at the path in the account
StoredAt(account_id, path) ==
    {d \in DOMAIN files[account_id] : Path(files[account_id], d) = path}

\* both requests are finished and named the same destination path, which
\* named no resource in the hierarchy either of them read
SameFreeDestination(i, j) ==
    /\ i # j
    /\ cm[i].pc = "done" /\ cm[j].pc = "done"
    /\ cm[i].destination_resource_name # <<>>
    /\ cm[i].destination_resource_name = cm[j].destination_resource_name
    /\ by_name(cm[i].to_files, cm[i].destination_resource_name) = None
    /\ by_name(cm[j].to_files, cm[j].destination_resource_name) = None

\* C36: when two COPY or MOVE requests name the same destination path and
\* the path named no resource in the hierarchy each of them read, at most
\* one resource is stored at that path after both have finished.
C36_SiblingNamesStayUnique ==
    \A i, j \in Clients :
        SameFreeDestination(i, j) =>
            Cardinality(StoredAt(0, cm[i].destination_resource_name)) <= 1

\* the path holds at most one resource unless both requests wrote
C36_UnlessBothWrote ==
    \A i, j \in Clients :
        (SameFreeDestination(i, j) /\ (cm[i].commits = <<>> \/ cm[j].commits = <<>>)) =>
            Cardinality(StoredAt(0, cm[i].destination_resource_name)) <= 1

-----------------------------------------------------------------------------
(* The handlers side by side: card GET/HEAD, calendar-query, calendar      *)
(* DELETE, calendar PROPPATCH and file COPY/MOVE over one store, one       *)
(* request at a time.  `reported` holds the store as it was when the       *)
(* request in progress arrived.                                            *)

MaxFrameRequests == 2

Stores == [files |-> files, calendars |-> calendars, cards |-> cards]

\* no request is in progress
Quiet ==
    /\ cm.pc = "idle" /\ pp.pc = "idle" /\ get.pc = "idle"
    /\ query.pc = "idle" /\ del.pc = "idle"

Arrives == Quiet /\ requests < MaxFrameRequests

FrameCalendarPaths == {<<>>, <<"work">>, <<"work", "jan">>, <<"none">>, <<"team">>}

\* card/get.rs lines 34-118
FrameCardGet ==
    /\ Arrives
    /\ \E account_id \in Accounts, path \in {<<>>, <<"book">>, <<"book", "card">>, <<"none">>},
          headers_ok \in BOOLEAN, is_head \in BOOLEAN :
          get' = CardGetRequest(account_id, path, headers_ok, is_head)
    /\ requests' = requests + 1
    /\ reported' = Stores
    /\ UNCHANGED <<files, next_document_id, cm, calendars, pp, cards, uri, urn, query, del>>

FrameCardGetReturn ==
    /\ get.pc = "done"
    /\ get' = IdleGet
    /\ UNCHANGED <<files, next_document_id, cm, requests, calendars, pp, cards, reported, uri, urn, query, del>>

\* calendar/query.rs lines 56-129
FrameCalendarQuery ==
    /\ Arrives
    /\ \E account_id \in Accounts, path \in FrameCalendarPaths,
          filters \in {<<>>, <<Component(VEvent, January)>>},
          properties \in {<<[type |-> "GetETag"]>>, <<CalendarData(<<>>, <<>>, <<>>)>>} :
          query' = CalendarQueryRequest(account_id, path, filters, properties)
    /\ requests' = requests + 1
    /\ reported' = Stores
    /\ UNCHANGED <<files, next_document_id, cm, calendars, pp, cards, get, uri, urn, del>>

\* calendar/delete.rs lines 38-177
FrameCalendarDelete ==
    /\ Arrives
    /\ \E account_id \in Accounts, path \in FrameCalendarPaths, headers_ok \in BOOLEAN :
          del' = CalendarDeleteRequest(account_id, path, headers_ok)
    /\ requests' = requests + 1
    /\ reported' = Stores
    /\ UNCHANGED <<files, next_document_id, cm, calendars, pp, cards, get, uri, urn, query>>

\* calendar/proppatch.rs lines 68-225
FramePropPatch ==
    /\ Arrives
    /\ \E account_id \in Accounts, path \in FrameCalendarPaths \ {<<>>},
          set \in ClientSetLists, remove \in ClientRemoveLists, headers_ok \in BOOLEAN :
          pp' = PropPatchRequest(account_id, path, set, remove, FALSE, "Representation",
                                 headers_ok)
    /\ requests' = requests + 1
    /\ reported' = Stores
    /\ UNCHANGED <<files, next_document_id, cm, calendars, cards, get, uri, urn, query, del>>

\* file/copy_move.rs lines 38-173
FrameCopyMove ==
    /\ Arrives
    /\ \E is_move \in BOOLEAN, from_account_id \in Accounts, to_account_id \in Accounts,
          overwrite_fail \in BOOLEAN,
          from_path \in {<<"a">>, <<"c">>, <<"b">>, <<"a", "c">>},
          destination_resource_name \in {<<>>, <<"c">>, <<"d">>, <<"a", "b">>, <<"d", "d">>} :
          cm' = ValidateRequest(is_move, from_account_id, from_path, to_account_id,
                                destination_resource_name, overwrite_fail, "Infinity")
    /\ requests' = requests + 1
    /\ reported' = Stores
    /\ UNCHANGED <<files, next_document_id, calendars, pp, cards, get, uri, urn, query, del>>

InitFrame ==
    /\ files = InitFiles
    /\ next_document_id = [account_id \in Accounts |-> 7]
    /\ cm = IdleCm
    /\ requests = 0
    /\ calendars = InitQueryCalendars
    /\ pp = IdlePp
    /\ cards = InitCards
    /\ get = IdleGet
    /\ query = IdleQuery
    /\ del = IdleDel
    /\ uri = <<>> /\ urn = <<>>
    /\ reported = [files |-> InitFiles, calendars |-> InitQueryCalendars, cards |-> InitCards]

NextFrame ==
    \/ FrameCardGet
    \/ FrameCardGetReturn
    \/ FrameCalendarQuery
    \/ QueryItem
    \/ QueryFinish
    \/ QueryReturn
    \/ FrameCalendarDelete
    \/ DelCommit
    \/ DelCancel
    \/ DelReturn
    \/ FramePropPatch
    \/ PPCommit
    \/ PPCancel
    \/ PPFinish
    \/ FrameCopyMove
    \/ CMValidateHeaders
    \/ CMQuota
    \/ CMDeleteDestination
    \/ CMInner
    \/ CMRename
    \/ CMCancel
    \/ CMFinish

SpecFrame == InitFrame /\ [][NextFrame]_vars

-----------------------------------------------------------------------------
(* The store is left alone by reads and by refused requests                *)

ErrorStatuses == {403, 404, 405, 409, 412, 502, 507}

\* a request that has been answered with an error status
EndedInError ==
    \/ get.pc = "done" /\ get.status \in ErrorStatuses
    \/ query.pc = "done" /\ query.status \in ErrorStatuses
    \/ del.pc = "done" /\ del.status \in ErrorStatuses
    \/ pp.pc = "done" /\ pp.status \in ErrorStatuses
    \/ cm.pc = "done" /\ cm.status \in ErrorStatuses

\* a card GET or HEAD or a calendar-query is in progress or answered
ReadOnlyInProgress == get.pc # "idle" \/ query.pc # "idle"

\* C40: the store is as it was when the request arrived while a card GET or
\* HEAD or a calendar-query is handled, and when a request of any handler
\* has ended with 403, 404, 405, 409, 412, 502 or 507.
C40_StoreUnchanged ==
    (ReadOnlyInProgress \/ EndedInError) => Stores = reported

\* the same but for the COPY/MOVE requests that deleted the destination
\* before they failed
C40_ExceptDestinationDelete ==
    (ReadOnlyInProgress \/ (EndedInError /\ cm.commits = <<>>)) => Stores = reported

\* a DELETE refused with 412 as the second request, after a first request
\* that changed the store
C40_RefusedAfterChange ==
    /\ requests = 2
    /\ del.pc = "done" /\ del.status = 412
    /\ Stores # [files |-> InitFiles, calendars |-> InitQueryCalendars, cards |-> InitCards]
====
